---- MODULE Spec2Model ----
(***************************************************************************)
(* Verification model of the spooktober-tracker backend: change           *)
(* persistence (db.ts), the main Jetstream stream (jetstream-service.ts)  *)
(* and the temporary backfill manager (utils/jetstream-temp.ts).          *)
(*                                                                         *)
(* Every `await` of the source is an interleaving point: an action of the *)
(* model is the code that runs between two awaits (one turn of the Node   *)
(* event loop), together with the single database statement it waited on. *)
(***************************************************************************)
EXTENDS Integers, Sequences, FiniteSets, TLC

(***************************************************************************)
(* Bounds of the model                                                     *)
(***************************************************************************)
\* highest SERIAL id handed out by profile_changes in one behaviour
MaxId == 2

\* number of TemporaryJetstreamService objects alive at a time
MaxServices == 2
\* number of manager operations (startStreamForUser, finalizeStream) in flight
MaxTasks == 2
\* length of the wait queue of the temporary manager
MaxQueue == 2
\* number of startForUser calls in one behaviour
MaxCalls == 3
\* last tick of the wall clock (Date.now(), NOW())
MaxNow == 2
\* number of reloadDIDs calls in flight
MaxReloads == 2
\* number of handlers that have written and are about to call reloadDIDsNow
MaxPending == 2
\* number of enable/disable/ignore requests in one behaviour
MaxRoutes == 2
\* number of main-stream sockets that exist at a time
MaxSockets == 2
\* number of reconnect timers of the main stream pending at a time
MaxTimers == 1
\* number of events the upstream has in one behaviour
MaxEvents == 3
\* number of processEvent calls of the main stream in flight
MaxInFlight == 2

\* handler calls of a stream in flight at a time
MaxHandlers == 2
\* events a stream hands to its handlers
MaxReceived == 3
\* follow and unfollow events a stream hands to handleFollowEvent
MaxFollowEvents == 2
\* events of the upstream while a temporary stream runs beside the main stream
MaxProcessEvents == 2
\* milliseconds between two readings of the wall clock of the model
TickMs == 60000

\* deps.maxConcurrentTempStreams (50 in production, scaled down)
maxConcurrentTempStreams == 1
\* maxIterations of fetchFollowsFromBluesky (100 in production, scaled down)
maxIterations == 2
\* MAX_WANTED_DIDS (10000 in production, scaled down)
MAX_WANTED_DIDS == 3
\* DB_RETRY_ATTEMPTS
DB_RETRY_ATTEMPTS == 3

\* JavaScript undefined / SQL NULL
Undefined == "<undefined>"
Null == "<null>"
\* "no value" marker of the model (no call made yet, no row, no service)
None == "<none>"

\* the DIDs of the model
DIDs == {"did:plc:a", "did:plc:b"}

\* the users that enable monitoring
TUsers == {"did:plc:u1", "did:plc:u2"}
\* the follow list the route handler reads for a user before startForUser
followsOf(userDID) == IF userDID = "did:plc:u1" THEN {"did:plc:a"} ELSE {"did:plc:b"}
\* the handle of a DID, as the client and the resolver know it
handleOf(did) == IF did = "did:plc:a" THEN "a.example" ELSE "b.example"
\* the follows array of the body of POST /enable: {did, handle} per follow
followRecords(userDID) ==
  {[did |-> d, handle |-> handleOf(d), rkey |-> Undefined] : d \in followsOf(userDID)}
\* a timestamp column that is NULL, the cursor `null`
NullTime == 0
ServiceIds == 1..MaxServices
TaskIds == 1..MaxTasks
ReloadIds == 1..MaxReloads
SocketIds == 1..MaxSockets

\* the concurrent callers of insertChange: a stream handler (main or
\* temporary stream) and POST /api/changes
Callers == {"stream", "api"}

(***************************************************************************)
(* State                                                                   *)
(***************************************************************************)
VARIABLES
  sync,              \* the follow sync of start(): position and locals
  boot,              \* the temp-stream auto-restart after start(): position, timer, users
  er,                \* per user: the POST /enable or DELETE /disable request in progress, and what the requests made so far left
  profile_changes,   \* table profile_changes: a set of rows
  ignored_users,     \* table ignored_users: a set of DIDs
  nextId,            \* the SERIAL sequence of profile_changes.id
  ic,                \* the insertChange call of each caller: position and locals
  tx,                \* the addIgnoredUser transaction in progress
  serial,            \* TRUE: insertChange calls are issued one after the other
  prevCall,          \* the call completed before lastCall, when it had the same change
  lastCall,          \* the insertChange call completed last
  dirtyA,            \* ignored_users changed since prevCall was started
  dirtyB,            \* ignored_users changed since the latest call that completed was started
  now,               \* wall clock in ms: Date.now() of the process, NOW() of Postgres
  monitoring_backfill_state, \* table monitoring_backfill_state, by user_did
  activeStreams,     \* TemporaryJetstreamManager.activeStreams: user -> service (0: no entry)
  queue,             \* TemporaryJetstreamManager.queue
  svc,               \* the TemporaryJetstreamService objects constructed so far
  mt,                \* manager operations in flight: position and locals
  calls,             \* number of startForUser calls so far
  startResult,       \* what the startForUser promise settled last resolved with
  tempWantedDids,    \* per temporary stream: the wantedDids of the options message it sent last
  tp,                \* per temporary stream: the next event of the upstream, the handlers in flight, the events whose handling failed
  monitored_follows, \* table monitored_follows: rows (user_did, follow_did, follow_handle, rkey)
  currentDIDs,       \* JetstreamService.currentDIDs
  ws,                \* JetstreamService.ws: a socket id, 0 for null
  sockets,           \* the WebSocket objects of the main stream: their state
  reconnectAttempts, \* JetstreamService.reconnectAttempts
  reconnectTimers,   \* setTimeout(() => this.connect()) timers not fired yet
  shouldRun,         \* JetstreamService.shouldRun
  startTime,         \* JetstreamService.startTime
  lastCursor,        \* JetstreamService.lastCursor
  wantedDids,        \* payload.wantedDids of the options message sent last
  rl,                \* reloadDIDs calls in flight: position and locals
  reloadsPending,    \* handlers that have written and call reloadDIDsNow next
  reloadFailed,      \* a reloadDIDs call has ended in its catch block
  routeCalls,        \* number of enable/disable/ignore requests so far
  log,               \* the events the upstream has had so far: their kinds
  handlers,          \* processEvent calls of the main stream in flight
  failed,            \* events whose handling failed and has not succeeded since
  profileData,       \* the profileData map of the stream: did -> snapshot
  ht,                \* handler calls in flight: position and locals
  received,          \* number of events handed to the handlers so far
  profileCommitSeen, \* the DIDs the stream has received a profile commit for
  ft,                \* handleFollowEvent calls in flight: position and locals
  isInActualBackfill, \* JetstreamService.isInActualBackfill
  cursorAtStop,      \* JetstreamService.cursorAtStop
  stoppedAt,         \* JetstreamService.stoppedAt
  system_settings,   \* table system_settings: by key, the JSON texts of its rows
  sp,                \* the stop() call in flight: its position
  gr,                \* the getRecommendedStartCursor() call: position, locals, result
  stopRan            \* the latest stop() that found a cursor: the cursor and the time

dbVars == <<profile_changes, ignored_users, nextId, ic, tx, serial,
            prevCall, lastCall, dirtyA, dirtyB>>

tempVars == <<now, monitoring_backfill_state, activeStreams, queue, svc, mt, calls,
              startResult, tempWantedDids, tp>>

jsVars == <<currentDIDs, ws, sockets, reconnectAttempts, reconnectTimers, shouldRun,
           startTime, lastCursor, wantedDids>>

reloadVars == <<monitored_follows, rl, reloadsPending, reloadFailed, routeCalls>>

eventVars == <<log, handlers, failed>>

handlerVars == <<profileData, ht, received, profileCommitSeen>>

followVars == <<ft>>

resumeVars == <<cursorAtStop, stoppedAt, system_settings, sp, gr, stopRan>>

routeVars == <<er, boot, sync>>

mainVars == <<jsVars, reloadVars, eventVars, handlerVars, followVars, resumeVars,
             isInActualBackfill, routeVars>>

vars == <<dbVars, tempVars, mainVars>>

(***************************************************************************)
(* db.ts: change persistence                                               *)
(***************************************************************************)
\* `x ?? null` of the query parameters: undefined and null both become NULL
Coalesce(v) == IF v \in {Undefined, Null} THEN Null ELSE v

\* the seven columns compared by the duplicate check
TupleFields == {"old_display_name", "new_display_name", "old_avatar",
                "new_avatar", "old_handle", "new_handle"}

\* SQL `a IS NOT DISTINCT FROM b`: equal, two NULLs being equal
IsNotDistinctFrom(a, b) == a = b

\* SQL `a = b` in a WHERE clause: never true when a side is NULL
SqlEquals(a, b) == a # Null /\ b # Null /\ a = b

\* the WHERE clause of the duplicate check of insertChange, for row r
MatchesChangeSqlEquals(r, change) ==
  /\ r.did = change.did
  /\ \A f \in TupleFields : SqlEquals(r[f], Coalesce(change[f]))

MatchesChange(r, change) ==
  /\ r.did = change.did
  /\ \A f \in TupleFields : IsNotDistinctFrom(r[f], Coalesce(change[f]))

\* the rows the duplicate check of insertChange can return
DuplicateRows(change) == {r \in profile_changes : MatchesChange(r, change)}

\* JavaScript truthiness of an optional string
Truthy(v) == v \notin {Undefined, Null, ""}

getChangeType(change) ==
  LET hasHandleChange == Truthy(change.old_handle) /\ Truthy(change.new_handle)
      hasProfileChange == \/ change.old_display_name # Undefined
                          \/ change.new_display_name # Undefined
                          \/ change.old_avatar # Undefined
                          \/ change.new_avatar # Undefined
  IN IF hasHandleChange /\ hasProfileChange THEN "combined"
     ELSE IF hasHandleChange THEN "handle"
     ELSE "profile"

\* the row written by the INSERT of insertChange
NewRow(id, change) ==
  [id |-> id,
   did |-> change.did,
   handle |-> Coalesce(change.handle),
   old_handle |-> Coalesce(change.old_handle),
   new_handle |-> Coalesce(change.new_handle),
   old_display_name |-> Coalesce(change.old_display_name),
   new_display_name |-> Coalesce(change.new_display_name),
   old_avatar |-> Coalesce(change.old_avatar),
   new_avatar |-> Coalesce(change.new_avatar),
   change_type |-> getChangeType(change)]

\* the SubmitChangeRequest payloads of the model: handle changes whose
\* display-name fields are absent (undefined) or explicitly null
HandleChange(d, od) ==
  [did |-> d, handle |-> Undefined,
   old_handle |-> "old.example", new_handle |-> "new.example",
   old_display_name |-> od, new_display_name |-> Undefined,
   old_avatar |-> Undefined, new_avatar |-> Undefined]

Changes ==
  {HandleChange("did:plc:a", Undefined), HandleChange("did:plc:a", Null),
   HandleChange("did:plc:b", Undefined)}

IdleCall == [pc |-> "idle", change |-> None, dupId |-> 0, saved |-> FALSE]
\* no insertChange call has completed yet
NoCall == [kind |-> "none"]
\* the values insertChange resolves to: a row, null (ignored DID), or
\* undefined (existing.rows[0] of an empty result)
RowResult(r) == [kind |-> "row", row |-> r]
NullResult == [kind |-> "null"]
UndefinedResult == [kind |-> "undefined"]
IdleTx == [pc |-> "idle", did |-> None, deleted |-> {}]

\* insertChange resolves; the sequence of completed calls is recorded when
\* the calls are issued one after the other
Returned(p, result) ==
  /\ IF serial
       THEN /\ prevCall' = IF lastCall.kind = "call" /\ lastCall.change = ic[p].change
                            THEN lastCall ELSE NoCall
            /\ lastCall' = [kind |-> "call", change |-> ic[p].change, result |-> result]
            /\ dirtyA' = (ic[p].saved \/ dirtyB)
       ELSE UNCHANGED <<prevCall, lastCall, dirtyA>>
  /\ ic' = [ic EXCEPT ![p] = IdleCall]

\* a caller invokes insertChange(change): the ignore query is issued
insertChangeCalled(p, change) ==
  /\ ic[p].pc = "idle"
  /\ serial => \A q \in Callers : ic[q].pc = "idle"
  /\ ic' = [ic EXCEPT ![p] = [pc |-> "ignoredCheck", change |-> change,
                               dupId |-> 0, saved |-> dirtyB]]
  /\ dirtyB' = FALSE
  /\ UNCHANGED <<profile_changes, ignored_users, nextId, tx, serial,
                 prevCall, lastCall, dirtyA>>

\* POST /api/changes, or a stream outside its handlers, calls insertChange
InsertChangeCall(p, change) ==
  /\ insertChangeCalled(p, change)
  /\ UNCHANGED <<tempVars, mainVars>>

\* SELECT 1 FROM ignored_users WHERE did = $1; return null when ignored
InsertChangeIgnoredCheck(p) ==
  /\ ic[p].pc = "ignoredCheck"
  /\ IF ic[p].change.did \in ignored_users
       THEN Returned(p, NullResult)
       ELSE /\ ic' = [ic EXCEPT ![p].pc = "duplicateCheck"]
            /\ UNCHANGED <<prevCall, lastCall, dirtyA>>
  /\ UNCHANGED <<profile_changes, ignored_users, nextId, tx, serial, dirtyB>>
  /\ UNCHANGED <<tempVars, mainVars>>

\* the duplicate SELECT ... LIMIT 1 (no ORDER BY: any matching row)
InsertChangeDuplicateCheck(p) ==
  /\ ic[p].pc = "duplicateCheck"
  /\ IF DuplicateRows(ic[p].change) # {}
       THEN \E r \in DuplicateRows(ic[p].change) :
              ic' = [ic EXCEPT ![p].pc = "selectExisting", ![p].dupId = r.id]
       ELSE ic' = [ic EXCEPT ![p].pc = "insert"]
  /\ UNCHANGED <<profile_changes, ignored_users, nextId, tx, serial,
                 prevCall, lastCall, dirtyA, dirtyB>>
  /\ UNCHANGED <<tempVars, mainVars>>

\* SELECT * FROM profile_changes WHERE id = $1; return existing.rows[0]
InsertChangeSelectExisting(p) ==
  /\ ic[p].pc = "selectExisting"
  /\ LET existing == {r \in profile_changes : r.id = ic[p].dupId}
     IN IF existing = {}
          THEN Returned(p, UndefinedResult)
          ELSE Returned(p, RowResult(CHOOSE r \in existing : TRUE))
  /\ UNCHANGED <<profile_changes, ignored_users, nextId, tx, serial, dirtyB>>
  /\ UNCHANGED <<tempVars, mainVars>>

\* INSERT INTO profile_changes ... RETURNING *
InsertChangeInsert(p) ==
  /\ ic[p].pc = "insert"
  /\ nextId <= MaxId
  /\ LET row == NewRow(nextId, ic[p].change)
     IN /\ profile_changes' = profile_changes \cup {row}
        /\ Returned(p, RowResult(row))
  /\ nextId' = nextId + 1
  /\ UNCHANGED <<ignored_users, tx, serial, dirtyB>>
  /\ UNCHANGED <<tempVars, mainVars>>

\* a query of insertChange fails: the call rejects without a result
InsertChangeThrows(p) ==
  /\ ic[p].pc \in {"ignoredCheck", "duplicateCheck", "selectExisting", "insert"}
  /\ ic' = [ic EXCEPT ![p] = IdleCall]
  /\ dirtyB' = (dirtyB \/ ic[p].saved)
  /\ UNCHANGED <<profile_changes, ignored_users, nextId, tx, serial,
                 prevCall, lastCall, dirtyA>>
  /\ UNCHANGED <<tempVars, mainVars>>

\* addIgnoredUser: BEGIN; INSERT INTO ignored_users; DELETE FROM profile_changes.
\* Under READ COMMITTED the DELETE removes the rows committed when it runs,
\* and neither statement is visible to other sessions before COMMIT.
AddIgnoredUserDelete(did) ==
  /\ tx.pc = "idle"
  /\ tx' = [pc |-> "deleted", did |-> did,
            deleted |-> {r.id : r \in {x \in profile_changes : x.did = did}}]
  /\ UNCHANGED <<profile_changes, ignored_users, nextId, ic, serial,
                 prevCall, lastCall, dirtyA, dirtyB>>
  /\ UNCHANGED <<tempVars, mainVars>>

\* addIgnoredUser: COMMIT, the writes of the transaction become visible
addIgnoredUserCommitted ==
  /\ tx.pc = "deleted"
  /\ ignored_users' = ignored_users \cup {tx.did}
  /\ profile_changes' = {r \in profile_changes : r.id \notin tx.deleted}
  /\ tx' = IdleTx
  /\ dirtyA' = TRUE
  /\ dirtyB' = TRUE
  /\ UNCHANGED <<nextId, ic, serial, prevCall, lastCall>>

\* addIgnoredUser: COMMIT
AddIgnoredUserCommit ==
  /\ addIgnoredUserCommitted
  /\ UNCHANGED <<tempVars, mainVars>>

\* addIgnoredUser: a statement fails, ROLLBACK
AddIgnoredUserRollback ==
  /\ tx.pc = "deleted"
  /\ tx' = IdleTx
  /\ UNCHANGED <<profile_changes, ignored_users, nextId, ic, serial,
                 prevCall, lastCall, dirtyA, dirtyB>>
  /\ UNCHANGED <<tempVars, mainVars>>

\* removeIgnoredUser: DELETE FROM ignored_users WHERE did = $1
RemoveIgnoredUser(did) ==
  /\ did \in ignored_users
  /\ ignored_users' = ignored_users \ {did}
  /\ dirtyA' = TRUE
  /\ dirtyB' = TRUE
  /\ UNCHANGED <<profile_changes, nextId, ic, tx, serial, prevCall, lastCall>>
  /\ UNCHANGED <<tempVars, mainVars>>

(***************************************************************************)
(* utils/jetstream-temp.ts: TemporaryJetstreamService                      *)
(***************************************************************************)
\* a service id not handed out yet
NoService == [used |-> FALSE, userDID |-> None, follows |-> {}, shouldRun |-> FALSE,
              hasStopped |-> FALSE, ws |-> FALSE, reconnectTimeout |-> FALSE,
              lastCursor |-> NullTime, startTime |-> NullTime]

\* new TemporaryJetstreamService(deps, userDID, userHandle, follows, onStopped):
\* the field initialisers and the constructor
NewService(userDID, follows) ==
  [used |-> TRUE, userDID |-> userDID, follows |-> follows, shouldRun |-> TRUE,
   hasStopped |-> FALSE, ws |-> FALSE, reconnectTimeout |-> FALSE,
   lastCursor |-> NullTime, startTime |-> now]

FreeServiceIds == {s \in ServiceIds : ~svc[s].used}
FreeTaskIds == {k \in TaskIds : mt[k].pc = "idle"}
\* the slot a new asynchronous call of the manager runs in
NewTaskId == CHOOSE k \in FreeTaskIds : \A j \in FreeTaskIds : k <= j
NewServiceId == CHOOSE s \in FreeServiceIds : \A t \in FreeServiceIds : s <= t

\* queuePosition: 0 in a call made by startForUser itself, else the place in
\* the queue the promoted request was pushed at
IdleTask == [pc |-> "idle", userDID |-> None, follows |-> {}, sid |-> 0, queuePosition |-> 0]

\* TemporaryJetstreamService.connect(), the socket being constructed
ServiceConnected(service) ==
  IF ~service.shouldRun THEN service
  ELSE [service EXCEPT !.reconnectTimeout = FALSE, !.ws = TRUE]

\* TemporaryJetstreamService.start()
ServiceStarted(service) ==
  ServiceConnected([service EXCEPT !.shouldRun = TRUE, !.hasStopped = FALSE,
                                   !.lastCursor = NullTime])

\* a stop() that leaves the socket open and referenced
ServiceStoppedSocketKept(service) ==
  [service EXCEPT !.shouldRun = FALSE, !.reconnectTimeout = FALSE, !.hasStopped = TRUE]

\* TemporaryJetstreamService.stop() up to the hasStopped guard
ServiceStopped(service) ==
  [service EXCEPT !.shouldRun = FALSE, !.reconnectTimeout = FALSE, !.ws = FALSE,
                  !.hasStopped = TRUE]

(***************************************************************************)
(* db.ts: monitoring_backfill_state                                        *)
(***************************************************************************)
NoBackfillRow == [present |-> FALSE, last_started_at |-> NullTime,
                  last_completed_at |-> NullTime]

\* markBackfillStarted: upsert last_started_at = NOW(), last_completed_at = NULL
markBackfillStarted(table, userDID) ==
  [table EXCEPT ![userDID] = [present |-> TRUE, last_started_at |-> now,
                              last_completed_at |-> NullTime]]

\* markBackfillCompleted: upsert last_completed_at = NOW()
markBackfillCompleted(table, userDID) ==
  [table EXCEPT ![userDID] = [present |-> TRUE,
                              last_started_at |-> table[userDID].last_started_at,
                              last_completed_at |-> now]]

(***************************************************************************)
(* utils/jetstream-temp.ts: TemporaryJetstreamManager                      *)
(***************************************************************************)
ActiveUsers == {u \in TUsers : activeStreams[u] # 0}
ActiveSize == Cardinality(ActiveUsers)

\* the wall clock advances
Tick ==
  /\ now < MaxNow
  /\ now' = now + 1
  /\ UNCHANGED <<dbVars, mainVars, tempWantedDids, tp, monitoring_backfill_state, activeStreams, queue, svc, mt, calls,
                 startResult>>

\* no startForUser promise has resolved yet
NoResult == [settled |-> FALSE, queued |-> FALSE, position |-> 0, queuePosition |-> 0]

\* startStreamForUser returns and the promise of startForUser resolves: with
\* {queued: false} for a call that did not wait; for a request promoted from
\* the queue, processQueue calls next.resolve() and the then() callback makes
\* the result {queued: true, position: this.queue.length}.  queuePosition
\* recalls the place the request was pushed at (0: it was not queued)
StartForUserResolves(queuePosition) ==
  IF queuePosition = 0
    THEN [settled |-> TRUE, queued |-> FALSE, position |-> 0, queuePosition |-> 0]
    ELSE [settled |-> TRUE, queued |-> TRUE, position |-> Len(queue),
          queuePosition |-> queuePosition]

\* startForUser(userDID, follows): throw when the user has an entry (no
\* effect), enqueue when the table is full, else enter startStreamForUser
startForUserCall(userDID, follows) ==
  /\ calls < MaxCalls
  /\ calls' = calls + 1
  /\ activeStreams[userDID] = 0
  /\ IF ActiveSize >= maxConcurrentTempStreams
       THEN /\ Len(queue) < MaxQueue
            /\ queue' = Append(queue, [userDID |-> userDID, follows |-> follows,
                                       queuePosition |-> Len(queue) + 1])
            /\ UNCHANGED mt
       ELSE /\ FreeTaskIds # {}
            /\ mt' = [mt EXCEPT ![NewTaskId] = [pc |-> "getIgnoredUsers", userDID |-> userDID,
                                                follows |-> follows,
                                                sid |-> 0, queuePosition |-> 0]]
            /\ UNCHANGED queue

\* startForUser called by a route that does nothing else
StartForUser(userDID, follows) ==
  /\ startForUserCall(userDID, follows)
  /\ UNCHANGED <<dbVars, mainVars, tempWantedDids, tp, now, monitoring_backfill_state, activeStreams, svc, startResult>>

\* startStreamForUser: await deps.resolveHandle(userDID), which touches no
\* state of the manager and never rejects, then await deps.getIgnoredUsers(), filter the follows; with
\* nothing left go on to the markers, else construct the service and register it
StartGetIgnoredUsers(k) ==
  /\ mt[k].pc = "getIgnoredUsers"
  /\ LET filteredFollows == mt[k].follows \ ignored_users
     IN IF filteredFollows = {}
          THEN /\ mt' = [mt EXCEPT ![k].pc = "emptyMarkStarted"]
               /\ UNCHANGED <<svc, activeStreams>>
          ELSE \E s \in FreeServiceIds :
                 /\ s = NewServiceId
                 /\ svc' = [svc EXCEPT ![s] = NewService(mt[k].userDID, filteredFollows)]
                 /\ activeStreams' = [activeStreams EXCEPT ![mt[k].userDID] = s]
                 /\ mt' = [mt EXCEPT ![k].pc = "markStarted", ![k].sid = s]
  /\ UNCHANGED <<dbVars, mainVars, tempWantedDids, tp, now, monitoring_backfill_state, queue, calls, startResult>>

\* startStreamForUser, empty filtered list: withDBRetry(markBackfillStarted)
StartEmptyMarkStarted(k) ==
  /\ mt[k].pc = "emptyMarkStarted"
  /\ monitoring_backfill_state' = markBackfillStarted(monitoring_backfill_state, mt[k].userDID)
  /\ mt' = [mt EXCEPT ![k].pc = "emptyMarkCompleted"]
  /\ UNCHANGED <<dbVars, mainVars, tempWantedDids, tp, now, activeStreams, queue, svc, calls, startResult>>

\* startStreamForUser, empty filtered list: withDBRetry(markBackfillCompleted), return
StartEmptyMarkCompleted(k) ==
  /\ mt[k].pc = "emptyMarkCompleted"
  /\ monitoring_backfill_state' = markBackfillCompleted(monitoring_backfill_state, mt[k].userDID)
  /\ mt' = [mt EXCEPT ![k] = IdleTask]
  /\ startResult' = StartForUserResolves(mt[k].queuePosition)
  /\ UNCHANGED <<dbVars, mainVars, tempWantedDids, tp, now, activeStreams, queue, svc, calls>>

\* startStreamForUser: withDBRetry(markBackfillStarted), then service.start()
StartMarkStarted(k) ==
  /\ mt[k].pc = "markStarted"
  /\ monitoring_backfill_state' = markBackfillStarted(monitoring_backfill_state, mt[k].userDID)
  /\ svc' = [svc EXCEPT ![mt[k].sid] = ServiceStarted(@)]
  /\ mt' = [mt EXCEPT ![k] = IdleTask]
  /\ startResult' = StartForUserResolves(mt[k].queuePosition)
  /\ UNCHANGED <<dbVars, mainVars, tempWantedDids, tp, now, activeStreams, queue, calls>>

\* startStreamForUser: service.start() throws; the catch block removes the entry
StartMarkStartedStartThrows(k) ==
  /\ mt[k].pc = "markStarted"
  /\ monitoring_backfill_state' = markBackfillStarted(monitoring_backfill_state, mt[k].userDID)
  /\ svc' = [svc EXCEPT ![mt[k].sid] = NoService]
  /\ activeStreams' = [activeStreams EXCEPT ![mt[k].userDID] = 0]
  /\ mt' = [mt EXCEPT ![k].pc = "startFailedMarkCompleted"]
  /\ UNCHANGED <<dbVars, mainVars, tempWantedDids, tp, now, queue, calls, startResult>>

\* startStreamForUser, catch block: withDBRetry(markBackfillCompleted), rethrow
StartFailedMarkCompleted(k) ==
  /\ mt[k].pc = "startFailedMarkCompleted"
  /\ \/ monitoring_backfill_state' = markBackfillCompleted(monitoring_backfill_state, mt[k].userDID)
     \/ UNCHANGED monitoring_backfill_state
  /\ mt' = [mt EXCEPT ![k] = IdleTask]
  /\ UNCHANGED <<dbVars, mainVars, tempWantedDids, tp, now, activeStreams, queue, svc, calls, startResult>>

\* startStreamForUser: getIgnoredUsers rejects, or withDBRetry gives up on a
\* marker: the exception leaves startStreamForUser
StartThrows(k) ==
  /\ mt[k].pc \in {"getIgnoredUsers", "emptyMarkStarted", "emptyMarkCompleted", "markStarted"}
  /\ mt' = [mt EXCEPT ![k] = IdleTask]
  /\ svc' = IF mt[k].sid # 0 /\ activeStreams[mt[k].userDID] # mt[k].sid
              THEN [svc EXCEPT ![mt[k].sid] = NoService]
              ELSE svc
  /\ UNCHANGED <<dbVars, mainVars, tempWantedDids, tp, now, monitoring_backfill_state, activeStreams, queue, calls,
                 startResult>>

\* a start that has constructed service s and has not called s.start() yet
HeldByTask(s) == \E k \in TaskIds : mt[k].sid = s

\* service.stop(): the fields, then once per start onStopped -> finalizeStream
\* up to its first await: drop the entry of the user, if there is one
StopService(s) ==
  /\ svc' = [svc EXCEPT ![s] = IF HeldByTask(s) THEN ServiceStopped(@) ELSE NoService]
  /\ IF ~svc[s].hasStopped /\ activeStreams[svc[s].userDID] # 0
       THEN /\ activeStreams' = [activeStreams EXCEPT ![svc[s].userDID] = 0]
            /\ FreeTaskIds # {}
            /\ mt' = [mt EXCEPT ![NewTaskId] = [pc |-> "finalizeMarkCompleted",
                                                userDID |-> svc[s].userDID, follows |-> {}, sid |-> 0,
                                                queuePosition |-> 0]]
       ELSE UNCHANGED <<activeStreams, mt>>

\* stopForUser(userDID)
StopForUser(userDID) ==
  /\ activeStreams[userDID] # 0
  /\ StopService(activeStreams[userDID])
  /\ UNCHANGED <<dbVars, mainVars, tempWantedDids, tp, now, monitoring_backfill_state, queue, calls, startResult>>

\* processEvent of a temporary stream for an event with
\* time_us / 1000 >= startTime: stop() (the cursor set just before goes with
\* the stopped object)
TempCatchUp(s) ==
  /\ svc[s].used /\ svc[s].ws
  /\ StopService(s)
  /\ UNCHANGED <<dbVars, mainVars, tempWantedDids, tp, now, monitoring_backfill_state, queue, calls, startResult>>

\* jetstream-temp.ts buildOptionsUpdateMessage(dids): wantedDids is the list
\* it is given, whatever its length ("no limit here; upstream may cap")
tempBuildOptionsUpdateMessage(dids) == dids

\* the open handler of a temporary stream's socket: the options message with
\* this.follows is sent on the socket
TempSocketOpen(s) ==
  /\ svc[s].used /\ svc[s].ws
  /\ tempWantedDids' = [tempWantedDids EXCEPT ![s] = tempBuildOptionsUpdateMessage(svc[s].follows)]
  /\ UNCHANGED <<dbVars, mainVars, tp, now, monitoring_backfill_state, activeStreams, queue,
                 svc, mt, calls, startResult>>

\* finalizeStream after its entry is dropped: withDBRetry(markBackfillCompleted)
\* (a failure is logged), then processQueue up to its first await
FinalizeMarkCompleted(k) ==
  /\ mt[k].pc = "finalizeMarkCompleted"
  /\ \/ monitoring_backfill_state' = markBackfillCompleted(monitoring_backfill_state, mt[k].userDID)
     \/ UNCHANGED monitoring_backfill_state
  /\ IF queue = <<>> \/ ActiveSize >= maxConcurrentTempStreams
       THEN /\ mt' = [mt EXCEPT ![k] = IdleTask]
            /\ UNCHANGED queue
       ELSE /\ queue' = Tail(queue)
            /\ mt' = [mt EXCEPT ![k] = [pc |-> "getIgnoredUsers",
                                        userDID |-> Head(queue).userDID,
                                        follows |-> Head(queue).follows, sid |-> 0,
                                        queuePosition |-> Head(queue).queuePosition]]
  /\ UNCHANGED <<dbVars, mainVars, tempWantedDids, tp, now, activeStreams, svc, calls, startResult>>

(***************************************************************************)
(* db.ts: monitored_follows and its readers                                *)
(***************************************************************************)
Range(seq) == {seq[i] : i \in DOMAIN seq}

\* the arrays a SELECT DISTINCT without ORDER BY can return for a set of values
Orderings(S) ==
  {f \in [1..Cardinality(S) -> S] : \A i, j \in 1..Cardinality(S) : i # j => f[i] # f[j]}

\* getMonitoringUsers: SELECT DISTINCT user_did FROM monitored_follows
getMonitoringUsers == {r.user_did : r \in monitored_follows}

\* getAllMonitoredDIDs: SELECT DISTINCT follow_did FROM monitored_follows
getAllMonitoredDIDs == {r.follow_did : r \in monitored_follows}

\* the rkey of the row of the pair, NULL without a row
StoredRkey(userDID, followDID) ==
  LET rows == {r \in monitored_follows : r.user_did = userDID /\ r.follow_did = followDID}
  IN IF rows = {} THEN Null ELSE (CHOOSE r \in rows : TRUE).rkey

\* addMonitoredFollows(userDID, follows): upsert one row per follow
\* {did, handle, rkey}; on a conflict the handle is replaced and the rkey is
\* replaced when one is given (follow.rkey || null, COALESCE)
addMonitoredFollows(userDID, follows) ==
  {r \in monitored_follows : ~(r.user_did = userDID /\ \E f \in follows : f.did = r.follow_did)}
    \cup {[user_did |-> userDID, follow_did |-> f.did, follow_handle |-> f.handle,
           rkey |-> IF Truthy(f.rkey) THEN f.rkey ELSE StoredRkey(userDID, f.did)] :
          f \in follows}

\* removeMonitoredFollows(userDID): DELETE ... WHERE user_did = $1
removeMonitoredFollows(userDID) ==
  {r \in monitored_follows : r.user_did # userDID}

(***************************************************************************)
(* jetstream-service.ts: JetstreamService, sockets and DID reconciliation  *)
(***************************************************************************)
Min(a, b) == IF a <= b THEN a ELSE b

\* buildOptionsUpdateMessage(dids).payload.wantedDids
buildOptionsUpdateMessage(dids) ==
  SubSeq(dids, 1, Min(Len(dids), MAX_WANTED_DIDS))

IdleReload == [pc |-> "idle", followedDIDs |-> <<>>, userDIDs |-> <<>>, dids |-> <<>>,
               connectAfter |-> FALSE]
FreeReloadIds == {k \in ReloadIds : rl[k].pc = "idle"}
NewReloadId == CHOOSE k \in FreeReloadIds : \A j \in FreeReloadIds : k <= j
NewReload(connectAfter) ==
  [IdleReload EXCEPT !.pc = "getAllMonitoredDIDs", !.connectAfter = connectAfter]

\* a socket in a state, before it is subscribed: its state, the cursor of its
\* URL (0: none) and the index in the upstream log of the event it delivers next
Socket(state) == [state |-> state, cursor |-> NullTime, next |-> 0]

\* time_us of the i-th event of the upstream log
TimeUs(i) == i * 1000

\* the upstream replays from the cursor of the URL, or starts behind the
\* events it has so far when there is none
FirstIndexFrom(cursor) ==
  IF cursor = NullTime THEN Len(log) + 1
  ELSE CHOOSE i \in 1..(Len(log) + 1) :
         /\ i = Len(log) + 1 \/ TimeUs(i) >= cursor
         /\ \A j \in 1..(i - 1) : TimeUs(j) < cursor

\* a close() that leaves the socket as it is
SocketsAfterCloseIgnored(table, w) == table

\* ws.close() on socket w of the table: the close event comes later
SocketsAfterClose(table, w) ==
  IF w # 0 /\ table[w].state \in {"connecting", "open"}
    THEN [table EXCEPT ![w] = Socket("closing")]
    ELSE table

\* a socket object nobody refers to and that raises no more events is gone
SocketsAfterDrop(table, w) ==
  IF w # 0 /\ table[w].state = "closed" THEN [table EXCEPT ![w] = Socket("free")] ELSE table

FreeSocketIds(table) == {x \in SocketIds : table[x].state = "free"}
NewSocketId(table) == CHOOSE x \in FreeSocketIds(table) : \A y \in FreeSocketIds(table) : x <= y

\* connect(): nothing without DIDs, else a new WebSocket replaces this.ws; its
\* URL carries lastCursor, or no cursor (live) when lastCursor is null
CanConnect(dids, w, table) == dids = <<>> \/ FreeSocketIds(SocketsAfterDrop(table, w)) # {}
WsAfterConnect(dids, w, table) ==
  IF dids = <<>> THEN w ELSE NewSocketId(SocketsAfterDrop(table, w))
SocketsAfterConnect(dids, w, table) ==
  IF dids = <<>> THEN table
  ELSE [SocketsAfterDrop(table, w) EXCEPT ![NewSocketId(SocketsAfterDrop(table, w))] =
          [state |-> "connecting", cursor |-> lastCursor, next |-> 0]]

\* connect() leaves isInActualBackfill alone without DIDs and with a cursor,
\* and clears it when it starts live
BackfillAfterConnect(dids) ==
  IF dids # <<>> /\ lastCursor = NullTime THEN FALSE ELSE isInActualBackfill

\* a check that takes a cursor of exactly one minute for an old one
cursorAtLeastOneMinuteOld(cursor, nowMs) == nowMs - (cursor \div 1000) >= 60000

\* start(cursor): timeDiff > 60000 for timeDiff = now - cursor / 1000, the
\* cursor in microseconds and now in milliseconds; the quotient has a
\* fraction, and it is below the whole number now - 60000 exactly when its
\* integer part is
cursorOlderThanOneMinute(cursor, nowMs) == nowMs - (cursor \div 1000) > 60000

\* start(cursor), called with the arguments args, <<>> or <<cursor>>:
\* shouldRun, startTime, the cursor and the backfill mode when a cursor is
\* given, then (after the follow sync, which leaves monitored_follows as it is
\* when the follow graph has not changed) reloadDIDs and connect
MainStart(args) ==
  /\ startTime = NullTime
  /\ FreeReloadIds # {}
  /\ shouldRun' = TRUE
  /\ startTime' = now
  /\ IF args # <<>>
       THEN /\ lastCursor' = args[1]
            /\ isInActualBackfill' = cursorOlderThanOneMinute(args[1], now * TickMs)
       ELSE UNCHANGED <<lastCursor, isInActualBackfill>>
  /\ rl' = [rl EXCEPT ![NewReloadId] = NewReload(TRUE)]
  /\ UNCHANGED <<dbVars, tempVars, routeVars, handlerVars, followVars, resumeVars, eventVars, currentDIDs, ws, sockets, reconnectAttempts,
                 reconnectTimers, wantedDids, monitored_follows,
                 reloadsPending, reloadFailed, routeCalls>>

\* start() called while the service is running (POST /jetstream/start has no
\* check): the same statements, startTime is set anew
MainStartAgain ==
  /\ startTime # NullTime
  /\ FreeReloadIds # {}
  /\ shouldRun' = TRUE
  /\ startTime' = now
  /\ rl' = [rl EXCEPT ![NewReloadId] = NewReload(TRUE)]
  /\ UNCHANGED <<dbVars, tempVars, routeVars, handlerVars, followVars, resumeVars, eventVars,
                 lastCursor, isInActualBackfill, currentDIDs, ws, sockets, reconnectAttempts,
                 reconnectTimers, wantedDids, monitored_follows,
                 reloadsPending, reloadFailed, routeCalls>>

\* reloadDIDsNow(), called by a handler after its write
ReloadDIDsNow ==
  /\ reloadsPending > 0
  /\ FreeReloadIds # {}
  /\ reloadsPending' = reloadsPending - 1
  /\ rl' = [rl EXCEPT ![NewReloadId] = NewReload(FALSE)]
  /\ UNCHANGED <<dbVars, tempVars, routeVars, handlerVars, followVars, resumeVars, isInActualBackfill, eventVars, jsVars, monitored_follows, reloadFailed, routeCalls>>

\* reloadDIDs: withDBRetry(getAllMonitoredDIDs)
ReloadGetAllMonitoredDIDs(k) ==
  /\ rl[k].pc = "getAllMonitoredDIDs"
  /\ \E rows \in Orderings(getAllMonitoredDIDs) :
       rl' = [rl EXCEPT ![k].followedDIDs = rows, ![k].pc = "getMonitoringUsers"]
  /\ UNCHANGED <<dbVars, tempVars, routeVars, handlerVars, followVars, resumeVars, isInActualBackfill, eventVars, jsVars, monitored_follows, reloadsPending,
                 reloadFailed, routeCalls>>

\* reloadDIDs: withDBRetry(getMonitoringUsers)
ReloadGetMonitoringUsers(k) ==
  /\ rl[k].pc = "getMonitoringUsers"
  /\ \E rows \in Orderings(getMonitoringUsers) :
       rl' = [rl EXCEPT ![k].userDIDs = rows, ![k].pc = "getIgnoredUsers"]
  /\ UNCHANGED <<dbVars, tempVars, routeVars, handlerVars, followVars, resumeVars, isInActualBackfill, eventVars, jsVars, monitored_follows, reloadsPending,
                 reloadFailed, routeCalls>>

\* the list reloadDIDs computes: users first, then follows, ignored DIDs left out
ReloadList(userDIDs, followedDIDs, ignoredSet) ==
  LET userDIDsFiltered == SelectSeq(userDIDs, LAMBDA did : did \notin ignoredSet)
      followedDIDsFiltered == SelectSeq(followedDIDs, LAMBDA did : did \notin ignoredSet)
  IN userDIDsFiltered \o
       SelectSeq(followedDIDsFiltered, LAMBDA did : did \notin Range(userDIDsFiltered))

\* reloadDIDs returns; start() goes on to connect()
ReloadReturns(k, dids, w, table) ==
  /\ rl' = [rl EXCEPT ![k] = IdleReload]
  /\ IF rl[k].connectAfter
       THEN /\ CanConnect(dids, w, table)
            /\ ws' = WsAfterConnect(dids, w, table)
            /\ sockets' = SocketsAfterConnect(dids, w, table)
            /\ isInActualBackfill' = BackfillAfterConnect(dids)
       ELSE /\ ws' = w
            /\ sockets' = table
            /\ UNCHANGED isInActualBackfill

\* reloadDIDs: withDBRetry(getIgnoredUsers), then the list is computed; an
\* empty list is stored at once, a changed list goes on to the user count
ReloadGetIgnoredUsers(k) ==
  /\ rl[k].pc = "getIgnoredUsers"
  /\ LET dids == ReloadList(rl[k].userDIDs, rl[k].followedDIDs, ignored_users)
     IN IF dids = <<>>
          THEN /\ currentDIDs' = <<>>
               /\ IF currentDIDs # <<>>
                    THEN ReloadReturns(k, <<>>, 0,
                                       SocketsAfterDrop(SocketsAfterClose(sockets, ws), ws))
                    ELSE ReloadReturns(k, <<>>, ws, sockets)
          ELSE IF dids # currentDIDs
                 THEN /\ rl' = [rl EXCEPT ![k] = [IdleReload EXCEPT
                                            !.pc = "getMonitoringUserCount",
                                            !.dids = dids,
                                            !.connectAfter = rl[k].connectAfter]]
                      /\ UNCHANGED <<currentDIDs, ws, sockets, isInActualBackfill>>
                 ELSE /\ ReloadReturns(k, currentDIDs, ws, sockets)
                      /\ UNCHANGED currentDIDs
  /\ UNCHANGED <<dbVars, tempVars, routeVars, handlerVars, followVars, resumeVars, eventVars, reconnectAttempts, reconnectTimers, shouldRun,
                 startTime, lastCursor, wantedDids, monitored_follows,
                 reloadsPending, reloadFailed, routeCalls>>

\* reloadDIDs: withDBRetry(getMonitoringUserCount), store the list, close the socket
ReloadGetMonitoringUserCount(k) ==
  /\ rl[k].pc = "getMonitoringUserCount"
  /\ currentDIDs' = rl[k].dids
  /\ reconnectAttempts' = IF ws # 0 THEN 0 ELSE reconnectAttempts
  /\ ReloadReturns(k, rl[k].dids, ws, SocketsAfterClose(sockets, ws))
  /\ UNCHANGED <<dbVars, tempVars, routeVars, handlerVars, followVars, resumeVars, eventVars, reconnectTimers, shouldRun, startTime, lastCursor,
                 wantedDids, monitored_follows, reloadsPending, reloadFailed, routeCalls>>

\* reloadDIDs: withDBRetry gives up on a query, the catch block logs
ReloadThrows(k) ==
  /\ rl[k].pc \in {"getAllMonitoredDIDs", "getMonitoringUsers", "getIgnoredUsers",
                   "getMonitoringUserCount"}
  /\ reloadFailed' = TRUE
  /\ ReloadReturns(k, currentDIDs, ws, sockets)
  /\ UNCHANGED <<dbVars, tempVars, routeVars, handlerVars, followVars, resumeVars, eventVars, currentDIDs, reconnectAttempts, reconnectTimers,
                 shouldRun, startTime, lastCursor, wantedDids, monitored_follows,
                 reloadsPending, routeCalls>>

\* the open handler of a socket: reset the attempts, send the options message
\* on this.ws
MainSocketOpen(s) ==
  /\ sockets[s].state = "connecting"
  /\ sockets' = [sockets EXCEPT ![s] = [state |-> "open", cursor |-> sockets[s].cursor,
                                        next |-> FirstIndexFrom(sockets[s].cursor)]]
  /\ reconnectAttempts' = 0
  /\ wantedDids' = IF ws # 0 /\ (ws = s \/ sockets[ws].state = "open")
                     THEN buildOptionsUpdateMessage(currentDIDs)
                     ELSE wantedDids
  /\ UNCHANGED <<dbVars, tempVars, routeVars, handlerVars, followVars, resumeVars, isInActualBackfill, eventVars, reloadVars, currentDIDs, ws, reconnectTimers,
                 shouldRun, startTime, lastCursor>>

\* the close handler of a socket, after ws.close() or a loss of the connection:
\* schedule connect(), at once when reconnectAttempts is 0
MainSocketClose(s) ==
  /\ sockets[s].state \in {"connecting", "open", "closing"}
  /\ sockets' = [sockets EXCEPT ![s] = IF ws = s THEN Socket("closed") ELSE Socket("free")]
  /\ IF shouldRun
       THEN /\ reconnectTimers < MaxTimers
            /\ reconnectTimers' = reconnectTimers + 1
            /\ reconnectAttempts' = IF reconnectAttempts = 0 THEN 0
                                    ELSE reconnectAttempts + 1
       ELSE UNCHANGED <<reconnectTimers, reconnectAttempts>>
  /\ UNCHANGED <<dbVars, tempVars, routeVars, handlerVars, followVars, resumeVars, isInActualBackfill, eventVars, reloadVars, currentDIDs, ws, shouldRun, startTime,
                 lastCursor, wantedDids>>

\* the close handler's delay for reconnectAttempts = attempts: a close with
\* the counter at 0 is taken for a manual reconnect and gets no delay, else
\* the counter is incremented and the delay is min(1000 * 2^attempts, 30000) ms
reconnectDelay(attempts) ==
  LET isManualReconnect == attempts = 0
  IN IF isManualReconnect THEN 0 ELSE Min(1000 * 2^(attempts + 1), 30000)

\* a reconnect timer fires: connect()
MainReconnectTimer ==
  /\ reconnectTimers > 0
  /\ reconnectTimers' = reconnectTimers - 1
  /\ CanConnect(currentDIDs, ws, sockets)
  /\ ws' = WsAfterConnect(currentDIDs, ws, sockets)
  /\ sockets' = SocketsAfterConnect(currentDIDs, ws, sockets)
  /\ isInActualBackfill' = BackfillAfterConnect(currentDIDs)
  /\ UNCHANGED <<dbVars, tempVars, routeVars, handlerVars, followVars, resumeVars, eventVars, reloadVars, currentDIDs, reconnectAttempts,
                 shouldRun, startTime, lastCursor, wantedDids>>

\* isRunningWithCursor(): a cursor, and started more than 30 s ago
isRunningWithCursor ==
  LET hasValidCursor == lastCursor # NullTime
      hasUptime == startTime # NullTime
      runningSinceMs == IF hasUptime THEN (now - startTime) * TickMs ELSE 0
      runningForAtLeast30s == runningSinceMs > 30000
  IN hasValidCursor /\ runningForAtLeast30s

\* getMainStreamStatus()
getMainStreamStatus ==
  LET isRunning == shouldRun /\ ws # 0 /\ Len(currentDIDs) > 0
  IN [isRunning |-> isRunning,
      monitoredDIDs |-> Len(currentDIDs),
      hasValidCursor |-> isRunning /\ isRunningWithCursor]

(***************************************************************************)
(* jetstream-service.ts: the message handler and processEvent              *)
(***************************************************************************)
\* event.kind of the events of the upstream
EventKinds == {"identity", "commit", "account"}

\* the upstream has one more event
UpstreamEvent(kind) ==
  /\ Len(log) < MaxEvents
  /\ log' = Append(log, kind)
  /\ UNCHANGED <<dbVars, tempVars, routeVars, handlerVars, followVars, resumeVars, isInActualBackfill, jsVars, reloadVars, handlers, failed>>

\* processEvent is about to call withDBRetry for a handler of event i
Handler(i, stage) == [event |-> i, stage |-> stage, attempt |-> 0]

\* the calls of withDBRetry a processEvent call can be waiting in
Handlers == [event : 1..MaxEvents,
             stage : {"handleIdentityEvent", "handleProfileCommit", "handleFollowEvent"},
             attempt : 0..(DB_RETRY_ATTEMPTS - 1)]

\* processEvent after lastCursor = eventCursor: the backfill is complete with
\* an event whose time, eventCursor / 1000, is not before the start time
BackfillAfterEvent(eventCursor) ==
  IF isInActualBackfill /\ startTime # NullTime
     /\ eventCursor \div 1000 >= startTime * TickMs
    THEN FALSE
    ELSE isInActualBackfill

\* the message handler of socket s: parse, call processEvent without awaiting
\* it; processEvent runs up to its first await, to its end for an event that
\* is neither an identity nor a commit event
MainMessage(s) ==
  /\ sockets[s].state = "open"
  /\ sockets[s].next <= Len(log)
  /\ LET i == sockets[s].next
     IN /\ sockets' = [sockets EXCEPT ![s].next = i + 1]
        /\ IF log[i] \in {"identity", "commit"}
             THEN /\ Cardinality(handlers) < MaxInFlight
                  /\ LET h == Handler(i, IF log[i] = "identity" THEN "handleIdentityEvent"
                                                                ELSE "handleProfileCommit")
                     IN /\ h \notin handlers
                        /\ handlers' = handlers \cup {h}
                  /\ UNCHANGED <<lastCursor, failed, isInActualBackfill>>
             ELSE /\ lastCursor' = TimeUs(i)
                  /\ isInActualBackfill' = BackfillAfterEvent(TimeUs(i))
                  /\ failed' = failed \ {i}
                  /\ UNCHANGED handlers
  /\ UNCHANGED <<dbVars, tempVars, routeVars, handlerVars, followVars, resumeVars, reloadVars, log, currentDIDs, ws, reconnectAttempts,
                 reconnectTimers, shouldRun, startTime, wantedDids>>

\* withDBRetry: the operation resolves; processEvent goes on to the next
\* handler or, after the last one, sets lastCursor to the time_us of its event
HandlerAttemptSucceeds(h) ==
  /\ h \in handlers
  /\ IF h.stage = "handleProfileCommit"
       THEN /\ Handler(h.event, "handleFollowEvent") \notin handlers
            /\ handlers' = (handlers \ {h}) \cup {Handler(h.event, "handleFollowEvent")}
            /\ UNCHANGED <<lastCursor, failed, isInActualBackfill>>
       ELSE /\ handlers' = handlers \ {h}
            /\ lastCursor' = TimeUs(h.event)
            /\ isInActualBackfill' = BackfillAfterEvent(TimeUs(h.event))
            /\ failed' = failed \ {h.event}
  /\ UNCHANGED <<dbVars, tempVars, routeVars, handlerVars, followVars, resumeVars, reloadVars, log, currentDIDs, ws, sockets,
                 reconnectAttempts, reconnectTimers, shouldRun, startTime, wantedDids>>

\* withDBRetry: the operation rejects; retry after the delay, or rethrow at
\* the last attempt, which processEvent catches and logs
HandlerAttemptFails(h) ==
  /\ h \in handlers
  /\ IF h.attempt + 1 >= DB_RETRY_ATTEMPTS
       THEN /\ handlers' = handlers \ {h}
            /\ failed' = failed \cup {h.event}
       ELSE /\ [h EXCEPT !.attempt = h.attempt + 1] \notin handlers
            /\ handlers' = (handlers \ {h}) \cup {[h EXCEPT !.attempt = h.attempt + 1]}
            /\ UNCHANGED failed
  /\ UNCHANGED <<dbVars, tempVars, routeVars, handlerVars, followVars, resumeVars, isInActualBackfill, reloadVars, log, jsVars>>

(***************************************************************************)
(* utils/jetstream-temp.ts: the message handler and processEvent of a      *)
(* temporary stream                                                        *)
(***************************************************************************)
\* a temporary stream that has received nothing
NoProcessing == [next |-> 1, handlers |-> {}, failed |-> {}]

\* the withDBRetry call of stage `stage` a processEvent call for event i waits in
TempHandler(i, stage) == [event |-> i, stage |-> stage, attempt |-> 0]

\* the message handler of temporary stream s for an event from before the
\* start of the stream: void processEvent(event), which sets lastCursor to
\* event.time_us and then runs up to its first await, to its end for an event
\* that is neither an identity nor a commit event (an event from the start
\* time on makes the stream stop: TempCatchUp)
TempMessage(s) ==
  /\ svc[s].used /\ svc[s].ws
  /\ tp[s].next <= Len(log)
  /\ LET i == tp[s].next
     IN /\ TimeUs(i) \div 1000 < svc[s].startTime * TickMs
        /\ svc' = [svc EXCEPT ![s].lastCursor = TimeUs(i)]
        /\ IF log[i] \in {"identity", "commit"}
             THEN /\ Cardinality(tp[s].handlers) < MaxInFlight
                  /\ tp' = [tp EXCEPT ![s].next = i + 1,
                                      ![s].handlers = @ \cup
                                        {TempHandler(i, IF log[i] = "identity"
                                                          THEN "handleIdentityEvent"
                                                          ELSE "handleProfileCommit")}]
             ELSE tp' = [tp EXCEPT ![s].next = i + 1]
  /\ UNCHANGED <<dbVars, mainVars, tempWantedDids, now, monitoring_backfill_state,
                 activeStreams, queue, mt, calls, startResult>>

\* deps.withDBRetry of a temporary stream: the operation resolves; processEvent
\* goes on to handleFollowEvent after handleProfileCommit, else returns
TempHandlerAttemptSucceeds(s, h) ==
  /\ h \in tp[s].handlers
  /\ tp' = [tp EXCEPT ![s].handlers =
              (@ \ {h}) \cup (IF h.stage = "handleProfileCommit"
                                THEN {TempHandler(h.event, "handleFollowEvent")} ELSE {}),
                      ![s].failed = IF h.stage = "handleProfileCommit" THEN @
                                    ELSE @ \ {h.event}]
  /\ UNCHANGED <<dbVars, mainVars, tempWantedDids, now, monitoring_backfill_state,
                 activeStreams, queue, svc, mt, calls, startResult>>

\* deps.withDBRetry of a temporary stream: the operation rejects; retry after
\* the delay, or rethrow at the last attempt, which processEvent catches and logs
TempHandlerAttemptFails(s, h) ==
  /\ h \in tp[s].handlers
  /\ IF h.attempt + 1 >= DB_RETRY_ATTEMPTS
       THEN tp' = [tp EXCEPT ![s].handlers = @ \ {h}, ![s].failed = @ \cup {h.event}]
       ELSE tp' = [tp EXCEPT ![s].handlers = (@ \ {h}) \cup {[h EXCEPT !.attempt = @ + 1]}]
  /\ UNCHANGED <<dbVars, mainVars, tempWantedDids, now, monitoring_backfill_state,
                 activeStreams, queue, svc, mt, calls, startResult>>

\* the close handler of the socket of a temporary stream: this.ws = null; a
\* stopped service returns, a running one schedules connect()
ServiceSocketClosed(service) ==
  IF ~service.shouldRun THEN [service EXCEPT !.ws = FALSE]
  ELSE [service EXCEPT !.ws = FALSE, !.reconnectTimeout = TRUE]

\* the connection of temporary stream s is lost: its close handler runs
TempSocketClose(s) ==
  /\ svc[s].used /\ svc[s].ws
  /\ svc' = [svc EXCEPT ![s] = ServiceSocketClosed(@)]
  /\ UNCHANGED <<dbVars, mainVars, tempWantedDids, tp, now, monitoring_backfill_state,
                 activeStreams, queue, mt, calls, startResult>>

\* the reconnect timer of temporary stream s fires: connect()
TempReconnectTimer(s) ==
  /\ svc[s].used /\ svc[s].reconnectTimeout
  /\ svc' = [svc EXCEPT ![s] = ServiceConnected(@)]
  /\ UNCHANGED <<dbVars, mainVars, tempWantedDids, tp, now, monitoring_backfill_state,
                 activeStreams, queue, mt, calls, startResult>>

\* time_us of an event the upstream stamps now
LiveTimeUs == now * TickMs * 1000

\* the message handler of temporary stream s for a live event, one from the
\* start time of the stream on: processEvent sets lastCursor and calls stop(),
\* which calls finalizeStream up to its first await, and returns; the stopped
\* object stays until the close event of its socket has been delivered
TempLiveMessage(s) ==
  /\ svc[s].used /\ svc[s].ws
  /\ LiveTimeUs \div 1000 >= svc[s].startTime * TickMs
  /\ svc' = [svc EXCEPT ![s] = ServiceStopped([@ EXCEPT !.lastCursor = LiveTimeUs])]
  /\ IF ~svc[s].hasStopped /\ activeStreams[svc[s].userDID] # 0
       THEN /\ activeStreams' = [activeStreams EXCEPT ![svc[s].userDID] = 0]
            /\ FreeTaskIds # {}
            /\ mt' = [mt EXCEPT ![NewTaskId] = [pc |-> "finalizeMarkCompleted",
                                                userDID |-> svc[s].userDID, follows |-> {}, sid |-> 0,
                                                queuePosition |-> 0]]
       ELSE UNCHANGED <<activeStreams, mt>>
  /\ UNCHANGED <<dbVars, mainVars, tempWantedDids, tp, now, monitoring_backfill_state,
                 queue, calls, startResult>>

\* a stopped stream whose socket has not raised its close event yet
SocketClosing(s) == svc[s].used /\ svc[s].hasStopped /\ ~svc[s].ws /\ ~HeldByTask(s)

\* a live event delivered on the socket of stopped stream s before its close
\* event: processEvent sets lastCursor and calls stop(), which returns at the
\* hasStopped guard
TempLateMessage(s) ==
  /\ SocketClosing(s)
  /\ LiveTimeUs \div 1000 >= svc[s].startTime * TickMs
  /\ svc' = [svc EXCEPT ![s] = ServiceStopped([@ EXCEPT !.lastCursor = LiveTimeUs])]
  /\ UNCHANGED <<dbVars, mainVars, tempWantedDids, tp, now, monitoring_backfill_state,
                 activeStreams, queue, mt, calls, startResult>>

\* the close event of the socket of stopped stream s: the close handler runs;
\* an object left without socket and timer is gone
TempClosingSocketCloses(s) ==
  /\ SocketClosing(s)
  /\ LET closed == ServiceSocketClosed(svc[s])
     IN svc' = [svc EXCEPT ![s] = IF closed.reconnectTimeout THEN closed ELSE NoService]
  /\ UNCHANGED <<dbVars, mainVars, tempWantedDids, tp, now, monitoring_backfill_state,
                 activeStreams, queue, mt, calls, startResult>>

(***************************************************************************)
(* routes/monitoring.ts, admin routes: writes followed by reloadDIDsNow     *)
(***************************************************************************)
\* POST /enable up to its reloadDIDsNow: addMonitoredFollows(user_did, follows)
PostEnable(userDID) ==
  /\ routeCalls < MaxRoutes
  /\ reloadsPending < MaxPending
  /\ routeCalls' = routeCalls + 1
  /\ monitored_follows' = addMonitoredFollows(userDID, followRecords(userDID))
  /\ reloadsPending' = reloadsPending + 1
  /\ UNCHANGED <<dbVars, tempVars, routeVars, handlerVars, followVars, resumeVars, isInActualBackfill, eventVars, jsVars, rl, reloadFailed>>

\* DELETE /disable/:user_did up to its reloadDIDsNow: stopForUser (no stream
\* here), removeMonitoredFollows(user_did)
DeleteDisable(userDID) ==
  /\ routeCalls < MaxRoutes
  /\ reloadsPending < MaxPending
  /\ activeStreams[userDID] = 0
  /\ routeCalls' = routeCalls + 1
  /\ monitored_follows' = removeMonitoredFollows(userDID)
  /\ reloadsPending' = reloadsPending + 1
  /\ UNCHANGED <<dbVars, tempVars, routeVars, handlerVars, followVars, resumeVars, isInActualBackfill, eventVars, jsVars, rl, reloadFailed>>

\* getMonitoredFollows(userDID): SELECT * FROM monitored_follows WHERE user_did = $1
getMonitoredFollows(userDID) == {r \in monitored_follows : r.user_did = userDID}

\* canStartStream(userDID).allowed
canStartStream(userDID) ==
  activeStreams[userDID] = 0 /\ ActiveSize < maxConcurrentTempStreams

\* POST /backfill/:user_did without restart: 400 for a user without monitored
\* follows, the queue answer when canStartStream refuses, else
\* startForUser(user_did, follows.map(f => f.follow_did))
PostBackfill(userDID) ==
  /\ getMonitoredFollows(userDID) # {}
  /\ canStartStream(userDID)
  /\ StartForUser(userDID, {r.follow_did : r \in getMonitoredFollows(userDID)})

\* POST /ignored-users: addIgnoredUser commits, reloadDIDsNow comes next
PostIgnoredUsersCommit ==
  /\ routeCalls < MaxRoutes
  /\ reloadsPending < MaxPending
  /\ addIgnoredUserCommitted
  /\ routeCalls' = routeCalls + 1
  /\ reloadsPending' = reloadsPending + 1
  /\ UNCHANGED <<tempVars, routeVars, handlerVars, followVars, resumeVars, isInActualBackfill, eventVars, jsVars, monitored_follows, rl, reloadFailed>>

(***************************************************************************)
(* jetstream-service.ts: handleIdentityEvent and handleProfileCommit, as   *)
(* called by processEvent of one stream with its profileData map           *)
(***************************************************************************)
\* the values the events of the model carry; "" is what `x || ""` makes of a
\* missing value
Handles == {"", "one.example", "two.example"}
DisplayNames == {"", "Ann"}
AvatarRefs == {"", "bafy1"}
\* the DIDs the events are about
EventDIDs == {"did:plc:a"}
HandlerIds == 1..MaxHandlers

\* profileData.get(did) of a DID without an entry
NoProfile == [present |-> FALSE, displayName |-> "", avatarRef |-> "", handle |-> ""]

\* the locals of a handler call; first recalls whether the stream had
\* received no profile commit for the DID before this one, attempt counts the
\* attempts of withDBRetry that threw, detected recalls that one of them had
\* found the change of the event
IdleHandler == [pc |-> "idle", kind |-> None, did |-> None,
                newHandle |-> "", oldHandle |-> "",
                newDisplayName |-> "", newAvatarRef |-> "",
                oldDisplayName |-> "", oldAvatarRef |-> "",
                oldProfile |-> FALSE, first |-> FALSE,
                attempt |-> 0, detected |-> FALSE]

FreeHandlerIds == {h \in HandlerIds : ht[h].pc = "idle"}
NewHandlerId == CHOOSE h \in FreeHandlerIds : \A j \in FreeHandlerIds : h <= j

\* `x || undefined`
OrUndefined(v) == IF v = "" THEN Undefined ELSE v

\* getLastKnownHandle(did): new_handle || handle of the latest row of the DID
\* that has one of them (changed_at is the time of the insert, ids follow it)
getLastKnownHandle(did) ==
  LET rows == {r \in profile_changes : r.did = did /\ (r.handle # Null \/ r.new_handle # Null)}
  IN IF rows = {} THEN Null
     ELSE LET latest == CHOOSE r \in rows : \A q \in rows : q.id <= r.id
          IN IF Truthy(latest.new_handle) THEN latest.new_handle ELSE latest.handle

\* a comparison that takes the first discovery of a handle for a change
handleChangedAlsoFromEmpty(oldHandle, newHandle) == newHandle # oldHandle

\* handleIdentityEvent: the handle changed, from a known handle to a known one
handleChanged(oldHandle, newHandle) ==
  newHandle # oldHandle /\ oldHandle # "" /\ newHandle # ""

\* changeData of handleIdentityEvent and of handleProfileCommit
changeData(call) ==
  IF call.kind = "identity"
    THEN [did |-> call.did,
          handle |-> OrUndefined(call.newHandle),
          old_handle |-> OrUndefined(call.oldHandle),
          new_handle |-> OrUndefined(call.newHandle),
          old_display_name |-> Undefined, new_display_name |-> Undefined,
          old_avatar |-> Undefined, new_avatar |-> Undefined]
    ELSE [did |-> call.did,
          handle |-> OrUndefined(call.oldHandle),
          old_handle |-> Undefined, new_handle |-> Undefined,
          old_display_name |-> OrUndefined(call.oldDisplayName),
          new_display_name |-> OrUndefined(call.newDisplayName),
          old_avatar |-> OrUndefined(call.oldAvatarRef),
          new_avatar |-> OrUndefined(call.newAvatarRef)]

\* handleIdentityEvent from the point where oldHandle is known: the snapshot
\* gets the new handle and keeps the displayName and avatarRef it has now;
\* without a handle change the handler returns, else it awaits isDuplicateChange
IdentityResolved(h, call, oldHandle) ==
  /\ profileData' = [profileData EXCEPT ![call.did] =
                       [present |-> TRUE,
                        displayName |-> profileData[call.did].displayName,
                        avatarRef |-> profileData[call.did].avatarRef,
                        handle |-> call.newHandle]]
  /\ ht' = [ht EXCEPT ![h] = [call EXCEPT !.oldHandle = oldHandle,
                                          !.pc = IF handleChanged(oldHandle, call.newHandle)
                                                   THEN "isDuplicateChange"
                                                   ELSE "returned"]]

\* handleProfileCommit from the point where currentHandle (kept in oldHandle)
\* is known: nothing to do when nothing changed and a snapshot existed, else
\* the snapshot is replaced; the change is persisted only when a field
\* changed and a snapshot existed when the event arrived
ProfileResolved(h, call, currentHandle) ==
  LET displayNameChanged == call.newDisplayName # call.oldDisplayName
      avatarChanged == call.newAvatarRef # call.oldAvatarRef
  IN IF ~displayNameChanged /\ ~avatarChanged /\ call.oldProfile
       THEN /\ ht' = [ht EXCEPT ![h] = [call EXCEPT !.oldHandle = currentHandle,
                                                   !.pc = "returned"]]
            /\ UNCHANGED profileData
       ELSE /\ profileData' = [profileData EXCEPT ![call.did] =
                                 [present |-> TRUE,
                                  displayName |-> call.newDisplayName,
                                  avatarRef |-> call.newAvatarRef,
                                  handle |-> currentHandle]]
            /\ ht' = [ht EXCEPT ![h] =
                        [call EXCEPT !.oldHandle = currentHandle,
                                     !.pc = IF (~displayNameChanged /\ ~avatarChanged)
                                                 \/ ~call.oldProfile
                                              THEN "returned"
                                              ELSE "isDuplicateChange"]]

HandleResolved(h, call, handle) ==
  IF call.kind = "identity" THEN IdentityResolved(h, call, handle)
                            ELSE ProfileResolved(h, call, handle)

\* processEvent calls handleIdentityEvent for an identity event: with a
\* snapshot its handle is the old handle, else getLastKnownHandle is awaited
IdentityEvent(did, newHandle) ==
  /\ received < MaxReceived
  /\ FreeHandlerIds # {}
  /\ received' = received + 1
  /\ LET call == [IdleHandler EXCEPT !.kind = "identity", !.did = did,
                                     !.newHandle = newHandle,
                                     !.pc = "getLastKnownHandle"]
     IN IF profileData[did].present
          THEN IdentityResolved(NewHandlerId, call, profileData[did].handle)
          ELSE ht' = [ht EXCEPT ![NewHandlerId] = call] /\ UNCHANGED profileData
  /\ UNCHANGED <<dbVars, tempVars, routeVars, jsVars, reloadVars, eventVars, followVars, resumeVars, isInActualBackfill, profileCommitSeen>>

\* processEvent calls handleProfileCommit for a commit of an
\* app.bsky.actor.profile record: the old values are read from the snapshot;
\* with a handle in it the handler goes on, else getLastKnownHandle is awaited
ProfileCommit(did, newDisplayName, newAvatarRef) ==
  /\ received < MaxReceived
  /\ FreeHandlerIds # {}
  /\ received' = received + 1
  /\ profileCommitSeen' = profileCommitSeen \cup {did}
  /\ LET call == [IdleHandler EXCEPT !.kind = "commit", !.did = did,
                                     !.newDisplayName = newDisplayName,
                                     !.newAvatarRef = newAvatarRef,
                                     !.oldDisplayName = profileData[did].displayName,
                                     !.oldAvatarRef = profileData[did].avatarRef,
                                     !.oldProfile = profileData[did].present,
                                     !.first = did \notin profileCommitSeen,
                                     !.pc = "getLastKnownHandle"]
     IN IF profileData[did].handle # ""
          THEN ProfileResolved(NewHandlerId, call, profileData[did].handle)
          ELSE ht' = [ht EXCEPT ![NewHandlerId] = call] /\ UNCHANGED profileData
  /\ UNCHANGED <<dbVars, tempVars, routeVars, jsVars, reloadVars, eventVars, followVars, resumeVars, isInActualBackfill>>

\* await getLastKnownHandle(did)
HandlerGetLastKnownHandle(h) ==
  /\ ht[h].pc = "getLastKnownHandle"
  /\ IF Truthy(getLastKnownHandle(ht[h].did))
       THEN HandleResolved(h, ht[h], getLastKnownHandle(ht[h].did))
       ELSE ht' = [ht EXCEPT ![h].pc = "resolveHandle"] /\ UNCHANGED profileData
  /\ UNCHANGED <<dbVars, tempVars, routeVars, jsVars, reloadVars, eventVars, followVars, resumeVars, isInActualBackfill, received, profileCommitSeen>>

\* await getPreviousHandleFromAuditLog(did) (identity events only) and await
\* resolveHandle(did): the directory knows a handle of the DID or none; the
\* two lookups touch no state of the program
HandlerResolveHandle(h) ==
  /\ ht[h].pc = "resolveHandle"
  /\ \E handle \in Handles : HandleResolved(h, ht[h], handle)
  /\ UNCHANGED <<dbVars, tempVars, routeVars, jsVars, reloadVars, eventVars, followVars, resumeVars, isInActualBackfill, received, profileCommitSeen>>

\* await isDuplicateChange(changeData): handleIdentityEvent returns on a
\* duplicate, else, and in handleProfileCommit in both cases, insertChange is
\* called (one insertChange call of the stream at a time)
HandlerIsDuplicateChange(h) ==
  /\ ht[h].pc = "isDuplicateChange"
  /\ IF ht[h].kind = "identity" /\ DuplicateRows(changeData(ht[h])) # {}
       THEN /\ ht' = [ht EXCEPT ![h].pc = "returned"]
            /\ UNCHANGED dbVars
       ELSE /\ ht' = [ht EXCEPT ![h].pc = "insertChange"]
            /\ insertChangeCalled("stream", changeData(ht[h]))
  /\ UNCHANGED <<tempVars, routeVars, jsVars, reloadVars, eventVars, followVars, resumeVars, isInActualBackfill, profileData, received,
                 profileCommitSeen>>

\* await insertChange(changeData): the call has resolved or rejected
HandlerInsertChange(h) ==
  /\ ht[h].pc = "insertChange"
  /\ ic["stream"].pc = "idle"
  /\ ht' = [ht EXCEPT ![h].pc = "returned"]
  /\ UNCHANGED <<dbVars, tempVars, routeVars, jsVars, reloadVars, eventVars, followVars, resumeVars, isInActualBackfill, profileData, received,
                 profileCommitSeen>>

\* the handler has returned: processEvent goes on
HandlerReturns(h) ==
  /\ ht[h].pc = "returned"
  /\ ht' = [ht EXCEPT ![h] = IdleHandler]
  /\ UNCHANGED <<dbVars, tempVars, routeVars, jsVars, reloadVars, eventVars, followVars, resumeVars, isInActualBackfill, profileData, received,
                 profileCommitSeen>>

\* a lookup or isDuplicateChange rejects: the handler throws
HandlerThrows(h) ==
  /\ ht[h].pc \in {"getLastKnownHandle", "isDuplicateChange"}
  /\ ht' = [ht EXCEPT ![h] = IdleHandler]
  /\ UNCHANGED <<dbVars, tempVars, routeVars, jsVars, reloadVars, eventVars, followVars, resumeVars, isInActualBackfill, profileData, received,
                 profileCommitSeen>>

\* withDBRetry around handleIdentityEvent: a lookup or isDuplicateChange
\* rejects and the operation throws; at the last attempt the error is
\* rethrown (processEvent logs it), else the wrapper waits
HandlerAttemptThrows(h) ==
  /\ ht[h].pc \in {"getLastKnownHandle", "isDuplicateChange"}
  /\ ht[h].kind = "identity"
  /\ ht' = [ht EXCEPT ![h] =
              IF ht[h].attempt + 1 >= DB_RETRY_ATTEMPTS
                THEN IdleHandler
                ELSE [@ EXCEPT !.pc = "wait", !.attempt = @ + 1,
                               !.detected = @ \/ ht[h].pc = "isDuplicateChange"]]
  /\ UNCHANGED <<dbVars, tempVars, routeVars, jsVars, reloadVars, eventVars, followVars,
                 resumeVars, isInActualBackfill, profileData, received, profileCommitSeen>>

\* withDBRetry after wait(delayMs): operation() once more, which is
\* handleIdentityEvent(event, this.profileData) from its first line
HandlerRetries(h) ==
  /\ ht[h].pc = "wait"
  /\ LET call == [IdleHandler EXCEPT !.kind = "identity", !.did = ht[h].did,
                                     !.newHandle = ht[h].newHandle,
                                     !.attempt = ht[h].attempt,
                                     !.detected = ht[h].detected,
                                     !.pc = "getLastKnownHandle"]
     IN IF profileData[call.did].present
          THEN IdentityResolved(h, call, profileData[call.did].handle)
          ELSE ht' = [ht EXCEPT ![h] = call] /\ UNCHANGED profileData
  /\ UNCHANGED <<dbVars, tempVars, routeVars, jsVars, reloadVars, eventVars, followVars,
                 resumeVars, isInActualBackfill, received, profileCommitSeen>>

(***************************************************************************)
(* jetstream-service.ts: stop(), getRecommendedStartCursor() and the       *)
(* settings they keep in system_settings                                   *)
(***************************************************************************)
\* twentyFourHours of getRecommendedStartCursor, in ms
twentyFourHours == 24 * 60 * 60 * 1000

\* Date.toISOString(): the text of a time, to the millisecond; the clock of
\* the model counts ticks of TickMs
toISOString(time) == [iso |-> time * TickMs]
\* new Date(text).getTime(), in ticks
DateOf(text) == text.iso \div TickMs

\* JSON.stringify(value) and JSON.parse(text) of a number or a string
JSONStringify(value) == [json |-> value]
JSONParse(text) == text.json

\* the keys of system_settings the service uses
SettingKeys == {"jetstream_stop_cursor", "jetstream_stop_time"}

\* saveSetting(key, value): upsert of the row of the key with the JSON text
saveSetting(key, value) == [system_settings EXCEPT ![key] = {JSONStringify(value)}]
\* loadSetting(key): the parsed values of the rows of the key; none is null
loadSetting(key) == {JSONParse(text) : text \in system_settings[key]}
\* the value loaded, or the null of its type
Loaded(values, null) == IF values = {} THEN null ELSE CHOOSE v \in values : TRUE

\* a number of microseconds of any size, as milliseconds and a rest
Micros(ms, us) == [ms |-> ms, us |-> us]
\* a cursor as such a number
CursorMicros(cursor) == Micros(cursor \div 1000, cursor % 1000)

IdleStop == "idle"
IdleRecommend == [pc |-> "idle", cursor |-> NullTime, stoppedAt |-> NullTime,
                  result |-> Micros(0, 0)]
NoStop == [cursor |-> NullTime, at |-> NullTime]

\* a resume policy that still takes the stop cursor of a stop a day old
RecommendedCursorUpToADay(cursor, stopTime) ==
  IF cursor # NullTime /\ stopTime # NullTime
     /\ (now - stopTime) * TickMs <= twentyFourHours
    THEN CursorMicros(cursor)
    ELSE Micros(now * TickMs, 0)

\* getRecommendedStartCursor() from its last if: the stop cursor when the
\* stop is less than twentyFourHours old, else Date.now() * 1000
RecommendedCursor(cursor, stopTime) ==
  IF cursor # NullTime /\ stopTime # NullTime
     /\ (now - stopTime) * TickMs < twentyFourHours
    THEN CursorMicros(cursor)
    ELSE Micros(now * TickMs, 0)

\* the end of stop(): the active state is reset, the reconnect timer is
\* cleared, the socket is closed and forgotten
StopResets ==
  /\ lastCursor' = NullTime
  /\ startTime' = NullTime
  /\ isInActualBackfill' = FALSE
  /\ reconnectTimers' = IF reconnectTimers > 0 THEN reconnectTimers - 1 ELSE 0
  /\ sockets' = SocketsAfterDrop(SocketsAfterClose(sockets, ws), ws)
  /\ ws' = 0

\* stop(): shouldRun, cursorAtStop and stoppedAt; with a cursor the settings
\* are saved next, without one stop() runs to its end
MainStop ==
  /\ sp = IdleStop
  /\ gr.pc = "idle"
  /\ \A k \in ReloadIds : rl[k].pc = "idle"
  /\ shouldRun' = FALSE
  /\ cursorAtStop' = lastCursor
  /\ stoppedAt' = now
  /\ IF lastCursor # NullTime
       THEN /\ sp' = "saveCursor"
            /\ stopRan' = [cursor |-> lastCursor, at |-> now]
            /\ UNCHANGED <<lastCursor, startTime, isInActualBackfill, reconnectTimers,
                           sockets, ws>>
       ELSE /\ StopResets
            /\ UNCHANGED <<sp, stopRan>>
  /\ UNCHANGED <<dbVars, tempVars, routeVars, handlerVars, followVars, eventVars, reloadVars,
                 currentDIDs, reconnectAttempts, wantedDids, system_settings, gr>>

\* stop(): saveSetting("jetstream_stop_cursor", this.cursorAtStop) has resolved
StopSaveCursor ==
  /\ sp = "saveCursor"
  /\ system_settings' = saveSetting("jetstream_stop_cursor", cursorAtStop)
  /\ sp' = "saveTime"
  /\ UNCHANGED <<dbVars, tempVars, routeVars, handlerVars, followVars, eventVars, reloadVars, jsVars,
                 isInActualBackfill, cursorAtStop, stoppedAt, gr, stopRan>>

\* stop(): saveSetting("jetstream_stop_time", this.stoppedAt.toISOString()) has
\* resolved, stop() runs to its end
StopSaveTime ==
  /\ sp = "saveTime"
  /\ system_settings' = saveSetting("jetstream_stop_time", toISOString(stoppedAt))
  /\ sp' = IdleStop
  /\ StopResets
  /\ UNCHANGED <<dbVars, tempVars, routeVars, handlerVars, followVars, eventVars, reloadVars,
                 currentDIDs, reconnectAttempts, shouldRun, wantedDids, cursorAtStop,
                 stoppedAt, gr, stopRan>>

\* getRecommendedStartCursor(): with cursorAtStop and stoppedAt in memory it
\* returns at once, else it loads the settings
GetRecommendedStartCursor ==
  /\ gr.pc = "idle"
  /\ sp = IdleStop
  /\ IF cursorAtStop # NullTime /\ stoppedAt # NullTime
       THEN gr' = [pc |-> "returned", cursor |-> cursorAtStop, stoppedAt |-> stoppedAt,
                   result |-> RecommendedCursor(cursorAtStop, stoppedAt)]
       ELSE gr' = [pc |-> "loadCursor", cursor |-> cursorAtStop, stoppedAt |-> stoppedAt,
                   result |-> Micros(0, 0)]
  /\ UNCHANGED <<dbVars, tempVars, routeVars, handlerVars, followVars, eventVars, reloadVars, jsVars,
                 isInActualBackfill, cursorAtStop, stoppedAt, system_settings, sp, stopRan>>

\* getRecommendedStartCursor(): loadSetting("jetstream_stop_cursor") has resolved
RecommendLoadCursor ==
  /\ gr.pc = "loadCursor"
  /\ gr' = [gr EXCEPT !.pc = "loadTime",
                      !.cursor = Loaded(loadSetting("jetstream_stop_cursor"), NullTime)]
  /\ UNCHANGED <<dbVars, tempVars, routeVars, handlerVars, followVars, eventVars, reloadVars, jsVars,
                 isInActualBackfill, cursorAtStop, stoppedAt, system_settings, sp, stopRan>>

\* getRecommendedStartCursor(): loadSetting("jetstream_stop_time") has
\* resolved; the pair is kept in memory and the call returns
RecommendLoadTime ==
  /\ gr.pc = "loadTime"
  /\ LET stopTimeStr == loadSetting("jetstream_stop_time")
         stopTime == IF stopTimeStr # {} THEN DateOf(Loaded(stopTimeStr, toISOString(NullTime)))
                     ELSE gr.stoppedAt
         found == gr.cursor # NullTime /\ stopTime # NullTime
     IN /\ cursorAtStop' = IF found THEN gr.cursor ELSE cursorAtStop
        /\ stoppedAt' = IF found THEN stopTime ELSE stoppedAt
        /\ gr' = [gr EXCEPT !.pc = "returned", !.stoppedAt = stopTime,
                            !.result = RecommendedCursor(gr.cursor, stopTime)]
  /\ UNCHANGED <<dbVars, tempVars, routeVars, handlerVars, followVars, eventVars, reloadVars, jsVars,
                 isInActualBackfill, system_settings, sp, stopRan>>

\* the caller has the cursor
RecommendReturns ==
  /\ gr.pc = "returned"
  /\ gr' = IdleRecommend
  /\ UNCHANGED <<dbVars, tempVars, routeVars, handlerVars, followVars, eventVars, reloadVars, jsVars,
                 isInActualBackfill, cursorAtStop, stoppedAt, system_settings, sp, stopRan>>

\* the process ends between two operations and a new one constructs the
\* service: the fields have their initial values, the tables are kept
Restart ==
  /\ sp = IdleStop
  /\ gr.pc = "idle"
  /\ \A k \in ReloadIds : rl[k].pc = "idle"
  /\ shouldRun' = TRUE
  /\ startTime' = NullTime
  /\ lastCursor' = NullTime
  /\ isInActualBackfill' = FALSE
  /\ cursorAtStop' = NullTime
  /\ stoppedAt' = NullTime
  /\ currentDIDs' = <<>>
  /\ wantedDids' = <<>>
  /\ ws' = 0
  /\ sockets' = [s \in SocketIds |-> Socket("free")]
  /\ reconnectAttempts' = 0
  /\ reconnectTimers' = 0
  /\ UNCHANGED <<dbVars, tempVars, routeVars, handlerVars, followVars, eventVars, reloadVars,
                 system_settings, sp, gr, stopRan>>

\* a day less a tick, or a day, passes
DayPasses(d) ==
  /\ now <= MaxNow
  /\ now' = now + (twentyFourHours \div TickMs) + d
  /\ UNCHANGED <<dbVars, mainVars, tempWantedDids, tp, monitoring_backfill_state, activeStreams, queue, svc, mt,
                 calls, startResult>>

\* the cursors of the start requests: a minute old, to the microsecond
CursorOffsets == {-1, 0, 1}

\* POST /jetstream/start of the admin router, sent while no stop and no
\* recommended-cursor request is under way: start(cursor) with the cursor of
\* the body, if it has one
PostJetstreamStart(hasCursor, d) ==
  /\ sp = IdleStop
  /\ gr.pc = "idle"
  /\ IF hasCursor
       THEN /\ now <= MaxNow
            /\ (now * TickMs - 60000) * 1000 + d > 0
            /\ MainStart(<<(now * TickMs - 60000) * 1000 + d>>)
       ELSE /\ d = 0
            /\ MainStart(<<>>)

(***************************************************************************)
(* jetstream-service.ts: handleFollowEvent, as called by processEvent of   *)
(* the main stream (no logPrefix) or of a temporary stream (logPrefix)     *)
(***************************************************************************)
\* commit.rkey of the follow records of the model
RKeys == {"3k1", "3k2"}
\* the logPrefix argument: none from the main stream, one from a temporary stream
LogPrefixes == {Undefined, "[temp]"}
FollowIds == 1..MaxHandlers

\* the locals of a handleFollowEvent call; subject is followedDID of a create
\* and removedDID of a delete; requested: the call has called reloadDIDsNow
IdleFollow == [pc |-> "idle", operation |-> None, followerDID |-> None, subject |-> None,
               rkey |-> None, followedHandle |-> "", suppressed |-> FALSE,
               hasMonitoring |-> FALSE, alreadyExists |-> FALSE, requested |-> FALSE]

FreeFollowIds == {f \in FollowIds : ft[f].pc = "idle"}
NewFollowId == CHOOSE f \in FreeFollowIds : \A g \in FreeFollowIds : f <= g

\* hasMonitoringEnabled(userDID): the user has a row
hasMonitoringEnabled(userDID) == \E r \in monitored_follows : r.user_did = userDID

\* getMonitoredFollows(followerDID).some(f => f.follow_did === followedDID)
alreadyExists(followerDID, followedDID) ==
  \E r \in monitored_follows : r.user_did = followerDID /\ r.follow_did = followedDID

\* getFollowDIDByRkey(userDID, rkey): the rows the SELECT returns
RowsByRkey(userDID, rkey) ==
  {r \in monitored_follows : r.user_did = userDID /\ r.rkey = rkey}

\* removeMonitoredFollowByRkey(userDID, rkey): DELETE ... WHERE user_did AND rkey
removeMonitoredFollowByRkey(userDID, rkey) == monitored_follows \ RowsByRkey(userDID, rkey)

\* a check that looks at the follows of the follower only
stillMonitoredByFollower(followerDID, removedDID) ==
  \E r \in monitored_follows : r.user_did = followerDID /\ r.follow_did = removedDID

\* handleFollowEvent, delete: (await getAllMonitoredDIDs()).includes(removedDID)
stillMonitored(followerDID, removedDID) == removedDID \in getAllMonitoredDIDs

\* processEvent calls handleFollowEvent for a create of an
\* app.bsky.graph.follow record: hasMonitoringEnabled is awaited
FollowCreateEvent(followerDID, followedDID, rkey, isInBackfill, logPrefix) ==
  /\ received < MaxFollowEvents
  /\ FreeFollowIds # {}
  /\ received' = received + 1
  /\ ft' = [ft EXCEPT ![NewFollowId] =
              [IdleFollow EXCEPT !.pc = "hasMonitoringEnabled", !.operation = "create",
                                 !.followerDID = followerDID, !.subject = followedDID,
                                 !.rkey = rkey,
                                 !.suppressed = (isInBackfill /\ logPrefix = Undefined)]]
  /\ UNCHANGED <<dbVars, tempVars, routeVars, jsVars, reloadVars, eventVars, profileData, ht,
                 profileCommitSeen, resumeVars, isInActualBackfill>>

\* the same for the delete of a follow record, which carries the rkey only
FollowDeleteEvent(followerDID, rkey, isInBackfill, logPrefix) ==
  /\ received < MaxFollowEvents
  /\ FreeFollowIds # {}
  /\ received' = received + 1
  /\ ft' = [ft EXCEPT ![NewFollowId] =
              [IdleFollow EXCEPT !.pc = "hasMonitoringEnabled", !.operation = "delete",
                                 !.followerDID = followerDID, !.rkey = rkey,
                                 !.suppressed = (isInBackfill /\ logPrefix = Undefined)]]
  /\ UNCHANGED <<dbVars, tempVars, routeVars, jsVars, reloadVars, eventVars, profileData, ht,
                 profileCommitSeen, resumeVars, isInActualBackfill>>

\* a handler that forgets the backfill check of the main stream
FollowHasMonitoringEnabledOnly(f) ==
  /\ ft[f].pc = "hasMonitoringEnabled"
  /\ LET hasMonitoring == hasMonitoringEnabled(ft[f].followerDID)
     IN ft' = [ft EXCEPT ![f].hasMonitoring = hasMonitoring,
                         ![f].pc = IF ~hasMonitoring THEN "returned"
                                   ELSE IF ft[f].operation = "create" THEN "resolveHandle"
                                   ELSE "getFollowDIDByRkey"]
  /\ UNCHANGED <<dbVars, tempVars, routeVars, jsVars, reloadVars, eventVars, handlerVars, resumeVars, isInActualBackfill>>

\* await hasMonitoringEnabled(followerDID): return for a user without
\* monitoring and for the main stream in backfill; then await
\* resolveHandle(followerDID), which touches no state, and go on by operation
FollowHasMonitoringEnabled(f) ==
  /\ ft[f].pc = "hasMonitoringEnabled"
  /\ LET hasMonitoring == hasMonitoringEnabled(ft[f].followerDID)
     IN ft' = [ft EXCEPT ![f].hasMonitoring = hasMonitoring,
                         ![f].pc = IF ~hasMonitoring \/ ft[f].suppressed THEN "returned"
                                   ELSE IF ft[f].operation = "create" THEN "resolveHandle"
                                   ELSE "getFollowDIDByRkey"]
  /\ UNCHANGED <<dbVars, tempVars, routeVars, jsVars, reloadVars, eventVars, handlerVars, resumeVars, isInActualBackfill>>

\* create: await resolveHandle(followedDID); without a handle the follow is skipped
FollowResolveHandle(f) ==
  /\ ft[f].pc = "resolveHandle"
  /\ \E followedHandle \in {"", handleOf(ft[f].subject)} :
       ft' = [ft EXCEPT ![f].followedHandle = followedHandle,
                        ![f].pc = IF followedHandle = "" THEN "returned"
                                  ELSE "getMonitoredFollows"]
  /\ UNCHANGED <<dbVars, tempVars, routeVars, jsVars, reloadVars, eventVars, handlerVars, resumeVars, isInActualBackfill>>

\* create: await getMonitoredFollows(followerDID); return when the pair is there
FollowGetMonitoredFollows(f) ==
  /\ ft[f].pc = "getMonitoredFollows"
  /\ LET exists == alreadyExists(ft[f].followerDID, ft[f].subject)
     IN ft' = [ft EXCEPT ![f].alreadyExists = exists,
                         ![f].pc = IF exists THEN "returned" ELSE "addMonitoredFollows"]
  /\ UNCHANGED <<dbVars, tempVars, routeVars, jsVars, reloadVars, eventVars, handlerVars, resumeVars, isInActualBackfill>>

\* create: the transaction of addMonitoredFollows commits
FollowAddMonitoredFollows(f) ==
  /\ ft[f].pc = "addMonitoredFollows"
  /\ monitored_follows' =
       addMonitoredFollows(ft[f].followerDID,
                           {[did |-> ft[f].subject, handle |-> ft[f].followedHandle,
                             rkey |-> ft[f].rkey]})
  /\ ft' = [ft EXCEPT ![f].pc = "reloadDIDsNow"]
  /\ UNCHANGED <<dbVars, tempVars, routeVars, jsVars, eventVars, handlerVars, resumeVars, isInActualBackfill, rl, reloadsPending,
                 reloadFailed, routeCalls>>

\* create: addMonitoredFollows has resolved, jetstreamService.reloadDIDsNow("auto")
FollowReloadDIDsNow(f) ==
  /\ ft[f].pc = "reloadDIDsNow"
  /\ reloadsPending < MaxPending
  /\ reloadsPending' = reloadsPending + 1
  /\ ft' = [ft EXCEPT ![f].requested = TRUE, ![f].pc = "returned"]
  /\ UNCHANGED <<dbVars, tempVars, routeVars, jsVars, eventVars, handlerVars, resumeVars, isInActualBackfill, monitored_follows, rl,
                 reloadFailed, routeCalls>>

\* delete: await getFollowDIDByRkey(followerDID, rkey); without a row the
\* event is dropped
FollowGetFollowDIDByRkey(f) ==
  /\ ft[f].pc = "getFollowDIDByRkey"
  /\ IF RowsByRkey(ft[f].followerDID, ft[f].rkey) = {}
       THEN ft' = [ft EXCEPT ![f].pc = "returned"]
       ELSE \E r \in RowsByRkey(ft[f].followerDID, ft[f].rkey) :
              ft' = [ft EXCEPT ![f].subject = r.follow_did,
                               ![f].pc = "removeMonitoredFollowByRkey"]
  /\ UNCHANGED <<dbVars, tempVars, routeVars, jsVars, reloadVars, eventVars, handlerVars, resumeVars, isInActualBackfill>>

\* delete: await resolveHandle(removedDID), then the DELETE of
\* removeMonitoredFollowByRkey(followerDID, rkey)
FollowRemoveMonitoredFollowByRkey(f) ==
  /\ ft[f].pc = "removeMonitoredFollowByRkey"
  /\ monitored_follows' = removeMonitoredFollowByRkey(ft[f].followerDID, ft[f].rkey)
  /\ ft' = [ft EXCEPT ![f].pc = "getAllMonitoredDIDs"]
  /\ UNCHANGED <<dbVars, tempVars, routeVars, jsVars, eventVars, handlerVars, resumeVars, isInActualBackfill, rl, reloadsPending,
                 reloadFailed, routeCalls>>

\* delete: await getAllMonitoredDIDs(); reloadDIDsNow("auto") unless the
\* removed DID is still in the list
FollowGetAllMonitoredDIDs(f) ==
  /\ ft[f].pc = "getAllMonitoredDIDs"
  /\ IF stillMonitored(ft[f].followerDID, ft[f].subject)
       THEN /\ ft' = [ft EXCEPT ![f].pc = "returned"]
            /\ UNCHANGED reloadsPending
       ELSE /\ reloadsPending < MaxPending
            /\ reloadsPending' = reloadsPending + 1
            /\ ft' = [ft EXCEPT ![f].requested = TRUE, ![f].pc = "returned"]
  /\ UNCHANGED <<dbVars, tempVars, routeVars, jsVars, eventVars, handlerVars, resumeVars, isInActualBackfill, monitored_follows, rl,
                 reloadFailed, routeCalls>>

\* handleFollowEvent has returned: processEvent goes on
FollowReturns(f) ==
  /\ ft[f].pc = "returned"
  /\ ft' = [ft EXCEPT ![f] = IdleFollow]
  /\ UNCHANGED <<dbVars, tempVars, routeVars, jsVars, reloadVars, eventVars, handlerVars, resumeVars, isInActualBackfill>>

\* a query of handleFollowEvent rejects: the handler throws
FollowThrows(f) ==
  /\ ft[f].pc \in {"hasMonitoringEnabled", "getMonitoredFollows", "addMonitoredFollows",
                   "getFollowDIDByRkey", "removeMonitoredFollowByRkey",
                   "getAllMonitoredDIDs"}
  /\ ft' = [ft EXCEPT ![f] = IdleFollow]
  /\ UNCHANGED <<dbVars, tempVars, routeVars, jsVars, reloadVars, eventVars, handlerVars, resumeVars, isInActualBackfill>>

(***************************************************************************)
(* routes/monitoring.ts: POST /enable and DELETE /disable/:user_did, one    *)
(* request at a time per user, await by await                              *)
(***************************************************************************)
\* the global limit of POST /enable (10000 in production, scaled down)
enableLimit == 3

\* a user without a request in progress.  requests counts the completed
\* requests of the sequence enable, disable, enable; first is the user's
\* persisted follow set when the first enable was answered
IdleRoute == [pc |-> "idle", requests |-> 0, first |-> {}]

\* the follow DIDs persisted for a user
persistedFollows(userDID) == {r.follow_did : r \in getMonitoredFollows(userDID)}

\* the answer of a request: the route rests, the sequence moves on
RouteAnswered(userDID) ==
  [er EXCEPT ![userDID].pc = "idle", ![userDID].requests = @ + 1,
             ![userDID].first = IF er[userDID].requests = 0
                                  THEN persistedFollows(userDID) ELSE @]

\* POST /enable up to addMonitoredFollows: 429 when the request would take the
\* distinct monitored DIDs past the limit; the queue answer, with nothing
\* written and nothing queued, when canStartStream refuses
EnableRequest(userDID) ==
  /\ er[userDID].pc = "idle"
  /\ er[userDID].requests \in {0, 2}
  /\ LET requestedDIDs == {f.did : f \in followRecords(userDID)}
         netNewCount == Cardinality(requestedDIDs \ persistedFollows(userDID))
         totalAfterAdd == Cardinality(getAllMonitoredDIDs) + netNewCount
     IN IF totalAfterAdd > enableLimit \/ ~canStartStream(userDID)
          THEN er' = RouteAnswered(userDID)
          ELSE er' = [er EXCEPT ![userDID].pc = "addMonitoredFollows"]
  /\ UNCHANGED <<boot, sync, dbVars, tempVars, jsVars, reloadVars, eventVars, handlerVars, followVars,
                 resumeVars, isInActualBackfill>>

\* POST /enable: await addMonitoredFollows(user_did, follows)
EnableAddMonitoredFollows(userDID) ==
  /\ er[userDID].pc = "addMonitoredFollows"
  /\ monitored_follows' = addMonitoredFollows(userDID, followRecords(userDID))
  /\ er' = [er EXCEPT ![userDID].pc = "reloadDIDsNow"]
  /\ UNCHANGED <<boot, sync, dbVars, tempVars, jsVars, eventVars, handlerVars, followVars, resumeVars,
                 isInActualBackfill, rl, reloadsPending, reloadFailed, routeCalls>>

\* the lock window of POST /enable: a backfill of the user began less than
\* BACKFILL_LOCK_WINDOW_MS (24 h) ago
withinLockWindow(userDID) ==
  LET lastStartedAt == monitoring_backfill_state[userDID].last_started_at
  IN lastStartedAt # NullTime /\ (now - lastStartedAt) * TickMs < twentyFourHours

\* POST /enable from reloadDIDsNow on: the reconciliation is requested (the
\* count of pending requests saturates), then, with the main stream running
\* on a cursor and outside the lock window, startForUser
EnableReloadDIDsNow(userDID) ==
  /\ er[userDID].pc = "reloadDIDsNow"
  /\ reloadsPending' = Min(reloadsPending + 1, MaxPending)
  /\ IF isRunningWithCursor /\ ~withinLockWindow(userDID)
       THEN startForUserCall(userDID, followsOf(userDID))
       ELSE UNCHANGED <<queue, mt, calls>>
  /\ er' = RouteAnswered(userDID)
  /\ UNCHANGED <<boot, sync, dbVars, jsVars, eventVars, handlerVars, followVars, resumeVars,
                 isInActualBackfill, monitored_follows, rl, reloadFailed, routeCalls,
                 now, monitoring_backfill_state, activeStreams, svc, startResult,
                 tempWantedDids, tp>>

\* DELETE /disable/:user_did up to removeMonitoredFollows: stopForUser
DisableRequest(userDID) ==
  /\ er[userDID].pc = "idle"
  /\ er[userDID].requests = 1
  /\ IF activeStreams[userDID] # 0
       THEN StopService(activeStreams[userDID])
       ELSE UNCHANGED <<svc, activeStreams, mt>>
  /\ er' = [er EXCEPT ![userDID].pc = "removeMonitoredFollows"]
  /\ UNCHANGED <<boot, sync, dbVars, jsVars, reloadVars, eventVars, handlerVars, followVars, resumeVars,
                 isInActualBackfill, now, monitoring_backfill_state, queue, calls,
                 startResult, tempWantedDids, tp>>

\* DELETE /disable/:user_did: await removeMonitoredFollows(user_did)
DisableRemoveMonitoredFollows(userDID) ==
  /\ er[userDID].pc = "removeMonitoredFollows"
  /\ monitored_follows' = removeMonitoredFollows(userDID)
  /\ er' = [er EXCEPT ![userDID].pc = "disableReloadDIDsNow"]
  /\ UNCHANGED <<boot, sync, dbVars, tempVars, jsVars, eventVars, handlerVars, followVars, resumeVars,
                 isInActualBackfill, rl, reloadsPending, reloadFailed, routeCalls>>

\* DELETE /disable/:user_did: reloadDIDsNow, then the answer
DisableReloadDIDsNow(userDID) ==
  /\ er[userDID].pc = "disableReloadDIDsNow"
  /\ reloadsPending' = Min(reloadsPending + 1, MaxPending)
  /\ er' = RouteAnswered(userDID)
  /\ UNCHANGED <<boot, sync, dbVars, tempVars, jsVars, eventVars, handlerVars, followVars, resumeVars,
                 isInActualBackfill, monitored_follows, rl, reloadFailed, routeCalls>>

(***************************************************************************)
(* jetstream-service.ts syncFollowsForAllUsers with the follows fetcher:   *)
(* the follow sync that start() awaits before reloadDIDs                   *)
(***************************************************************************)
\* the pages app.bsky.graph.getFollows has for a user, in order; every page
\* but the last comes with a cursor
followPages(userDID) ==
  IF userDID = "did:plc:u1" THEN <<{"did:plc:a"}, {"did:plc:b"}>>
  ELSE <<{"did:plc:a"}, {"did:plc:b"}, {"did:plc:c"}>>

\* fetchFollowsFromBluesky(userDID): the follows of the pages read before the
\* loop ended, and how it ended: a page without a cursor ("complete"), a
\* response that was not ok or a fetch that threw or timed out ("failed"),
\* maxIterations pages read ("cap").  The caller is given the follows only
fetchFollowsFromBluesky(userDID) ==
  LET pages == followPages(userDID)
      upTo(n) == UNION {pages[i] : i \in 1..n}
      last == Min(Len(pages), maxIterations)
  IN {[follows |-> upTo(n), ended |-> "failed"] : n \in 0..(last - 1)}
       \cup {[follows |-> upTo(last),
              ended |-> IF Len(pages) <= maxIterations THEN "complete" ELSE "cap"]}

\* no fetch made for a user
NoFetch == [follows |-> {}, ended |-> "none"]

\* userDIDs: the monitoring users read; followsMap: what the fetcher returned
\* per user; order: the users in the order of the map, those still to come;
\* dbFollowsMap: the rows read per user; unfollowed: the rows of the user at
\* hand that are still to be removed
IdleSync == [pc |-> "idle", userDIDs |-> {}, order |-> <<>>,
             followsMap |-> [u \in TUsers |-> NoFetch],
             dbFollowsMap |-> [u \in TUsers |-> {}], unfollowed |-> {}]

\* removeMonitoredFollow(userDID, followDID): DELETE ... WHERE user_did = $1
\* AND follow_did = $2
removeMonitoredFollow(userDID, followDID) ==
  {r \in monitored_follows : ~(r.user_did = userDID /\ r.follow_did = followDID)}

\* the rows of a user in the database and not among the fetched follows
unfollowedOf(userDID, followsMap, dbFollowsMap) ==
  {f \in dbFollowsMap[userDID] : f.follow_did \notin followsMap[userDID].follows}

\* syncFollowsForAllUsers returns (at its end, early, or from its catch
\* block); start() goes on to reloadDIDs
SyncReturns ==
  /\ sync' = [IdleSync EXCEPT !.pc = "done"]
  /\ rl' = [rl EXCEPT ![NewReloadId] = NewReload(TRUE)]

\* start() up to the first await of syncFollowsForAllUsers
StartSync ==
  /\ startTime = NullTime
  /\ sync.pc = "idle"
  /\ shouldRun' = TRUE
  /\ startTime' = now
  /\ sync' = [sync EXCEPT !.pc = "getMonitoringUsers"]
  /\ UNCHANGED <<dbVars, tempVars, reloadVars, eventVars, handlerVars, followVars, resumeVars,
                 isInActualBackfill, er, boot, currentDIDs, ws, sockets, reconnectAttempts,
                 reconnectTimers, lastCursor, wantedDids>>

\* syncFollowsForAllUsers: withDBRetry(getMonitoringUsers); nothing to do
\* without monitoring users
SyncGetMonitoringUsers ==
  /\ sync.pc = "getMonitoringUsers"
  /\ IF getMonitoringUsers = {}
       THEN SyncReturns
       ELSE /\ sync' = [sync EXCEPT !.pc = "fetchFollowsForUsers",
                                    !.userDIDs = getMonitoringUsers]
            /\ UNCHANGED rl
  /\ UNCHANGED <<dbVars, tempVars, jsVars, eventVars, handlerVars, followVars, resumeVars,
                 isInActualBackfill, er, boot, monitored_follows, reloadsPending,
                 reloadFailed, routeCalls>>

\* syncFollowsForAllUsers: await fetchFollowsForUsers(userDIDs), the fetches
\* run in parallel and the map holds the users in the order they finished
SyncFetchFollowsForUsers ==
  /\ sync.pc = "fetchFollowsForUsers"
  /\ \E order \in Orderings(sync.userDIDs),
        followsMap \in [TUsers -> {NoFetch} \cup UNION {fetchFollowsFromBluesky(u) : u \in TUsers}] :
       /\ \A u \in TUsers : IF u \in sync.userDIDs
                              THEN followsMap[u] \in fetchFollowsFromBluesky(u)
                              ELSE followsMap[u] = NoFetch
       /\ sync' = [sync EXCEPT !.pc = "getMonitoredFollowsBatch", !.order = order,
                               !.followsMap = followsMap]
  /\ UNCHANGED <<dbVars, tempVars, jsVars, reloadVars, eventVars, handlerVars, followVars,
                 resumeVars, isInActualBackfill, er, boot>>

\* syncFollowsForAllUsers: withDBRetry(getMonitoredFollowsBatch(userDIDs)),
\* then the loop over the map begins with its first user
SyncGetMonitoredFollowsBatch ==
  /\ sync.pc = "getMonitoredFollowsBatch"
  /\ LET dbFollowsMap == [u \in TUsers |-> IF u \in sync.userDIDs
                                             THEN getMonitoredFollows(u) ELSE {}]
     IN sync' = [sync EXCEPT !.pc = "user", !.dbFollowsMap = dbFollowsMap,
                             !.unfollowed = unfollowedOf(Head(sync.order), sync.followsMap,
                                                         dbFollowsMap)]
  /\ UNCHANGED <<dbVars, tempVars, jsVars, reloadVars, eventVars, handlerVars, followVars,
                 resumeVars, isInActualBackfill, er, boot>>

\* syncFollowsForAllUsers, the user at hand: withDBRetry(removeMonitoredFollow)
\* for the next unfollowed row
SyncRemoveMonitoredFollow ==
  /\ sync.pc = "user"
  /\ \E unfollow \in sync.unfollowed :
       /\ monitored_follows' = removeMonitoredFollow(Head(sync.order), unfollow.follow_did)
       /\ sync' = [sync EXCEPT !.unfollowed = @ \ {unfollow}]
  /\ UNCHANGED <<dbVars, tempVars, jsVars, eventVars, handlerVars, followVars, resumeVars,
                 isInActualBackfill, er, boot, rl, reloadsPending, reloadFailed, routeCalls>>

\* syncFollowsForAllUsers, the user at hand after the removals:
\* withDBRetry(addMonitoredFollows(userDID, currentFollows)) unless the list
\* is empty, then the next user of the map, or the end
SyncAddMonitoredFollows ==
  /\ sync.pc = "user"
  /\ sync.unfollowed = {}
  /\ LET userDID == Head(sync.order)
         currentFollows == {[did |-> d, handle |-> handleOf(d), rkey |-> Undefined] :
                              d \in sync.followsMap[userDID].follows}
     IN monitored_follows' = IF currentFollows # {}
                               THEN addMonitoredFollows(userDID, currentFollows)
                               ELSE monitored_follows
  /\ IF Tail(sync.order) = <<>>
       THEN SyncReturns
       ELSE /\ sync' = [sync EXCEPT !.order = Tail(@),
                                    !.unfollowed = unfollowedOf(Head(Tail(sync.order)),
                                                                sync.followsMap,
                                                                sync.dbFollowsMap)]
            /\ UNCHANGED rl
  /\ UNCHANGED <<dbVars, tempVars, jsVars, eventVars, handlerVars, followVars, resumeVars,
                 isInActualBackfill, er, boot, reloadsPending, reloadFailed, routeCalls>>

\* syncFollowsForAllUsers: withDBRetry gives up on a query, the catch block
\* logs and the function returns
SyncThrows ==
  /\ sync.pc \in {"getMonitoringUsers", "getMonitoredFollowsBatch", "user"}
  /\ SyncReturns
  /\ UNCHANGED <<dbVars, tempVars, jsVars, eventVars, handlerVars, followVars, resumeVars,
                 isInActualBackfill, er, boot, monitored_follows, reloadsPending,
                 reloadFailed, routeCalls>>

(***************************************************************************)
(* the server's start: the auto-restart of pending temporary streams after  *)
(* jetstreamService.start()                                                *)
(***************************************************************************)
\* at: when the retry timer was set; pending: the users still to restart;
\* restarted: the users startForUser has been called for
IdleBoot == [pc |-> "idle", at |-> NullTime, pending |-> <<>>, restarted |-> {}]

\* what an earlier run of the server left in monitoring_backfill_state for a
\* user: a backfill that was started, and completed or cut off
PreviousBackfill(userDID, completed) ==
  /\ startTime = NullTime
  /\ ~monitoring_backfill_state[userDID].present
  /\ LET started == markBackfillStarted(monitoring_backfill_state, userDID)
     IN monitoring_backfill_state' =
          IF completed THEN markBackfillCompleted(started, userDID) ELSE started
  /\ UNCHANGED <<dbVars, mainVars, tempWantedDids, tp, now, activeStreams, queue, svc, mt,
                 calls, startResult>>

\* the filter of the auto-restart on a row of getMonitoringUserCounts
isPending(row) ==
  IF row.last_started_at = NullTime THEN FALSE
  ELSE IF row.last_completed_at = NullTime THEN TRUE
  ELSE row.last_completed_at < row.last_started_at

\* getMonitoringUserCounts() filtered and mapped: the pending users, ORDER BY
\* user_did; a user without monitored_follows rows has no row in the join
PendingUsers ==
  LET users == {u \in getMonitoringUsers : isPending(monitoring_backfill_state[u])}
  IN IF users = {} THEN <<>>
     ELSE IF users = {"did:plc:u2"} THEN <<"did:plc:u2">>
     ELSE IF users = {"did:plc:u1"} THEN <<"did:plc:u1">>
     ELSE <<"did:plc:u1", "did:plc:u2">>

\* start() has resolved: the closure runs up to its first await; without a
\* valid cursor it sets the 30 s timer
BootFirstCheck ==
  /\ boot.pc = "idle"
  /\ startTime # NullTime
  /\ \A k \in ReloadIds : rl[k].pc = "idle"
  /\ boot' = IF isRunningWithCursor
               THEN [boot EXCEPT !.pc = "getMonitoringUserCounts"]
               ELSE [boot EXCEPT !.pc = "timer", !.at = now]
  /\ UNCHANGED <<dbVars, tempVars, jsVars, reloadVars, eventVars, handlerVars, followVars,
                 resumeVars, isInActualBackfill, er, sync>>

\* the timer fires, the clock having advanced: return without a valid cursor
BootTimer ==
  /\ boot.pc = "timer"
  /\ now > boot.at
  /\ boot' = IF isRunningWithCursor
               THEN [boot EXCEPT !.pc = "getMonitoringUserCounts"]
               ELSE [boot EXCEPT !.pc = "done"]
  /\ UNCHANGED <<dbVars, tempVars, jsVars, reloadVars, eventVars, handlerVars, followVars,
                 resumeVars, isInActualBackfill, er, sync>>

\* await getMonitoringUserCounts(): the pending users
BootGetMonitoringUserCounts ==
  /\ boot.pc = "getMonitoringUserCounts"
  /\ boot' = [boot EXCEPT !.pc = IF PendingUsers = <<>> THEN "done" ELSE "loop",
                          !.pending = PendingUsers]
  /\ UNCHANGED <<dbVars, tempVars, jsVars, reloadVars, eventVars, handlerVars, followVars,
                 resumeVars, isInActualBackfill, er, sync>>

\* one turn of the loop: await getMonitoredFollows(userDID), continue without
\* follows, else startForUser(userDID, followDIDs) up to its first await; a
\* throw of startForUser (the user has a stream) is caught and logged
BootRestartNext ==
  /\ boot.pc = "loop"
  /\ LET userDID == Head(boot.pending)
         followDIDs == {r.follow_did : r \in getMonitoredFollows(userDID)}
         called == followDIDs # {} /\ activeStreams[userDID] = 0
     IN /\ IF called
             THEN startForUserCall(userDID, followDIDs)
             ELSE UNCHANGED <<queue, mt, calls>>
        /\ boot' = [boot EXCEPT !.pending = Tail(@),
                                !.pc = IF Tail(boot.pending) = <<>> THEN "done" ELSE "loop",
                                !.restarted = IF called THEN @ \cup {userDID} ELSE @]
  /\ UNCHANGED <<dbVars, jsVars, reloadVars, eventVars, handlerVars, followVars,
                 resumeVars, isInActualBackfill, er, sync, now, monitoring_backfill_state,
                 activeStreams, svc, startResult, tempWantedDids, tp>>

(***************************************************************************)
(* Specifications of the persistence layer                                 *)
(***************************************************************************)
InitCommon ==
  /\ profile_changes = {}
  /\ ignored_users = {}
  /\ nextId = 1
  /\ ic = [p \in Callers |-> IdleCall]
  /\ tx = IdleTx
  /\ prevCall = NoCall
  /\ lastCall = NoCall
  /\ dirtyA = FALSE
  /\ dirtyB = FALSE
  /\ now = 1
  /\ monitoring_backfill_state = [u \in TUsers |-> NoBackfillRow]
  /\ activeStreams = [u \in TUsers |-> 0]
  /\ queue = <<>>
  /\ svc = [s \in ServiceIds |-> NoService]
  /\ mt = [k \in TaskIds |-> IdleTask]
  /\ calls = 0
  /\ startResult = NoResult
  /\ er = [u \in TUsers |-> IdleRoute]
  /\ boot = IdleBoot
  /\ sync = IdleSync
  /\ tempWantedDids = [s \in ServiceIds |-> {}]
  /\ tp = [s \in ServiceIds |-> NoProcessing]
  /\ currentDIDs = <<>>
  /\ ws = 0
  /\ sockets = [s \in SocketIds |-> Socket("free")]
  /\ log = <<>>
  /\ handlers = {}
  /\ failed = {}
  /\ reconnectAttempts = 0
  /\ reconnectTimers = 0
  /\ shouldRun = TRUE
  /\ startTime = NullTime
  /\ lastCursor = NullTime
  /\ wantedDids = <<>>
  /\ rl = [k \in ReloadIds |-> IdleReload]
  /\ reloadsPending = 0
  /\ reloadFailed = FALSE
  /\ routeCalls = 0
  /\ profileData = [d \in EventDIDs |-> NoProfile]
  /\ ht = [h \in HandlerIds |-> IdleHandler]
  /\ received = 0
  /\ profileCommitSeen = {}
  /\ ft = [f \in FollowIds |-> IdleFollow]
  /\ isInActualBackfill = FALSE
  /\ cursorAtStop = NullTime
  /\ stoppedAt = NullTime
  /\ system_settings = [key \in SettingKeys |-> {}]
  /\ sp = IdleStop
  /\ gr = IdleRecommend
  /\ stopRan = NoStop

InitDB == InitCommon /\ serial = FALSE /\ monitored_follows = {}
InitDBSeq == InitCommon /\ serial = TRUE /\ monitored_follows = {}
\* a boot with a monitoring user in the database
InitCursor ==
  /\ InitCommon
  /\ serial = FALSE
  /\ monitored_follows = {[user_did |-> "did:plc:u1", follow_did |-> "did:plc:a",
                           follow_handle |-> handleOf("did:plc:a"), rkey |-> Null]}

NextDB ==
  \/ \E p \in Callers, c \in Changes : InsertChangeCall(p, c)
  \/ \E p \in Callers : InsertChangeIgnoredCheck(p)
  \/ \E p \in Callers : InsertChangeDuplicateCheck(p)
  \/ \E p \in Callers : InsertChangeSelectExisting(p)
  \/ \E p \in Callers : InsertChangeInsert(p)
  \/ \E p \in Callers : InsertChangeThrows(p)
  \/ \E d \in DIDs : AddIgnoredUserDelete(d)
  \/ AddIgnoredUserCommit
  \/ AddIgnoredUserRollback
  \/ \E d \in DIDs : RemoveIgnoredUser(d)

NextTemp ==
  \/ Tick
  \/ \E u \in TUsers : StartForUser(u, followsOf(u))
  \/ \E k \in TaskIds : StartGetIgnoredUsers(k)
  \/ \E k \in TaskIds : StartEmptyMarkStarted(k)
  \/ \E k \in TaskIds : StartEmptyMarkCompleted(k)
  \/ \E k \in TaskIds : StartMarkStarted(k)
  \/ \E k \in TaskIds : StartMarkStartedStartThrows(k)
  \/ \E k \in TaskIds : StartFailedMarkCompleted(k)
  \/ \E k \in TaskIds : StartThrows(k)
  \/ \E u \in TUsers : StopForUser(u)
  \/ \E s \in ServiceIds : TempCatchUp(s)
  \/ \E k \in TaskIds : FinalizeMarkCompleted(k)
  \/ AddIgnoredUserDelete("did:plc:b")
  \/ AddIgnoredUserCommit

\* the temporary backfill manager with its callers and its streams
SpecTemp == InitDB /\ [][NextTemp]_vars

\* the admin can put any DID on the ignore list, a monitoring user included
IgnorableDIDs == {"did:plc:u1"}

NextReload ==
  \/ MainStart(<<>>)
  \/ ReloadDIDsNow
  \/ \E k \in ReloadIds : ReloadGetAllMonitoredDIDs(k)
  \/ \E k \in ReloadIds : ReloadGetMonitoringUsers(k)
  \/ \E k \in ReloadIds : ReloadGetIgnoredUsers(k)
  \/ \E k \in ReloadIds : ReloadGetMonitoringUserCount(k)
  \/ \E k \in ReloadIds : ReloadThrows(k)
  \/ \E s \in SocketIds : MainSocketOpen(s)
  \/ \E s \in SocketIds : MainSocketClose(s)
  \/ MainReconnectTimer
  \/ \E u \in TUsers : PostEnable(u)
  \/ \E u \in TUsers : DeleteDisable(u)
  \/ \E d \in IgnorableDIDs : AddIgnoredUserDelete(d)
  \/ PostIgnoredUsersCommit

NextCursor ==
  \/ Tick
  \/ MainStart(<<>>)
  \/ \E k \in ReloadIds : ReloadGetAllMonitoredDIDs(k)
  \/ \E k \in ReloadIds : ReloadGetMonitoringUsers(k)
  \/ \E k \in ReloadIds : ReloadGetIgnoredUsers(k)
  \/ \E k \in ReloadIds : ReloadGetMonitoringUserCount(k)
  \/ \E k \in ReloadIds : ReloadThrows(k)
  \/ \E s \in SocketIds : MainSocketOpen(s)
  \/ \E s \in SocketIds : MainSocketClose(s)
  \/ MainReconnectTimer
  \/ \E kind \in EventKinds : UpstreamEvent(kind)
  \/ \E s \in SocketIds : MainMessage(s)
  \/ \E h \in Handlers : HandlerAttemptSucceeds(h)
  \/ \E h \in Handlers : HandlerAttemptFails(h)

NextHandlers ==
  \/ \E d \in EventDIDs, handle \in Handles : IdentityEvent(d, handle)
  \/ \E d \in EventDIDs, n \in DisplayNames, a \in AvatarRefs : ProfileCommit(d, n, a)
  \/ \E h \in HandlerIds : HandlerGetLastKnownHandle(h)
  \/ \E h \in HandlerIds : HandlerResolveHandle(h)
  \/ \E h \in HandlerIds : HandlerIsDuplicateChange(h)
  \/ \E h \in HandlerIds : HandlerInsertChange(h)
  \/ \E h \in HandlerIds : HandlerReturns(h)
  \/ \E h \in HandlerIds : HandlerThrows(h)
  \/ InsertChangeIgnoredCheck("stream")
  \/ InsertChangeDuplicateCheck("stream")
  \/ InsertChangeSelectExisting("stream")
  \/ InsertChangeInsert("stream")
  \/ InsertChangeThrows("stream")

\* a stream handing identity events and profile commits to its handlers
SpecHandlers == InitDB /\ [][NextHandlers]_vars

\* processEvent of a stream whose earlier handler calls have returned and
\* whose insertChange calls have resolved receives an identity event
SerialIdentityEvent(did, newHandle) ==
  /\ \A h \in HandlerIds : ht[h].pc \in {"idle", "returned"}
  /\ ic["stream"].pc = "idle"
  /\ IdentityEvent(did, newHandle)

NextHandlersSerial ==
  \/ \E d \in EventDIDs, handle \in Handles : SerialIdentityEvent(d, handle)
  \/ \E h \in HandlerIds : HandlerGetLastKnownHandle(h)
  \/ \E h \in HandlerIds : HandlerResolveHandle(h)
  \/ \E h \in HandlerIds : HandlerIsDuplicateChange(h)
  \/ \E h \in HandlerIds : HandlerInsertChange(h)
  \/ \E h \in HandlerIds : HandlerReturns(h)
  \/ InsertChangeIgnoredCheck("stream")
  \/ InsertChangeDuplicateCheck("stream")
  \/ InsertChangeInsert("stream")

\* identity events handled one after the other, no query failing
SpecHandlersSerial == InitDB /\ [][NextHandlersSerial]_vars

NextRetry ==
  \/ \E d \in EventDIDs, handle \in Handles : IdentityEvent(d, handle)
  \/ \E h \in HandlerIds : HandlerGetLastKnownHandle(h)
  \/ \E h \in HandlerIds : HandlerResolveHandle(h)
  \/ \E h \in HandlerIds : HandlerIsDuplicateChange(h)
  \/ \E h \in HandlerIds : HandlerInsertChange(h)
  \/ \E h \in HandlerIds : HandlerReturns(h)
  \/ \E h \in HandlerIds : HandlerAttemptThrows(h)
  \/ \E h \in HandlerIds : HandlerRetries(h)
  \/ InsertChangeIgnoredCheck("stream")
  \/ InsertChangeDuplicateCheck("stream")
  \/ InsertChangeInsert("stream")

\* a stream handing identity events to handleIdentityEvent inside withDBRetry,
\* with database calls that fail now and then
SpecRetry == InitDB /\ [][NextRetry]_vars

\* two monitoring users who follow the same account
InitFollow ==
  /\ InitCommon
  /\ serial = FALSE
  /\ monitored_follows =
       {[user_did |-> u, follow_did |-> "did:plc:a", follow_handle |-> handleOf("did:plc:a"),
         rkey |-> "3k1"] : u \in TUsers}

NextFollow ==
  \/ \E u \in TUsers, d \in DIDs, k \in RKeys, b \in BOOLEAN, l \in LogPrefixes :
       FollowCreateEvent(u, d, k, b, l)
  \/ \E u \in TUsers, k \in RKeys, b \in BOOLEAN, l \in LogPrefixes :
       FollowDeleteEvent(u, k, b, l)
  \/ \E f \in FollowIds : FollowHasMonitoringEnabled(f)
  \/ \E f \in FollowIds : FollowResolveHandle(f)
  \/ \E f \in FollowIds : FollowGetMonitoredFollows(f)
  \/ \E f \in FollowIds : FollowAddMonitoredFollows(f)
  \/ \E f \in FollowIds : FollowReloadDIDsNow(f)
  \/ \E f \in FollowIds : FollowGetFollowDIDByRkey(f)
  \/ \E f \in FollowIds : FollowRemoveMonitoredFollowByRkey(f)
  \/ \E f \in FollowIds : FollowGetAllMonitoredDIDs(f)
  \/ \E f \in FollowIds : FollowReturns(f)
  \/ \E f \in FollowIds : FollowThrows(f)

\* processEvent of a stream that has no handleFollowEvent call in flight
\* receives the create or the delete of a follow record
SerialFollowCreateEvent(followerDID, followedDID, rkey, isInBackfill, logPrefix) ==
  /\ \A f \in FollowIds : ft[f].pc \in {"idle", "returned"}
  /\ FollowCreateEvent(followerDID, followedDID, rkey, isInBackfill, logPrefix)

SerialFollowDeleteEvent(followerDID, rkey, isInBackfill, logPrefix) ==
  /\ \A f \in FollowIds : ft[f].pc \in {"idle", "returned"}
  /\ FollowDeleteEvent(followerDID, rkey, isInBackfill, logPrefix)

\* did:plc:u1 follows did:plc:a by the enable request, which stores no record
\* key; did:plc:u2 follows it with the record key of an earlier follow event
InitFollowSerial ==
  /\ InitCommon
  /\ serial = FALSE
  /\ monitored_follows =
       {[user_did |-> u, follow_did |-> "did:plc:a", follow_handle |-> handleOf("did:plc:a"),
         rkey |-> IF u = "did:plc:u1" THEN Null ELSE "3k1"] : u \in TUsers}

NextFollowSerial ==
  \/ \E u \in TUsers, d \in DIDs, k \in RKeys, b \in BOOLEAN, l \in LogPrefixes :
       SerialFollowCreateEvent(u, d, k, b, l)
  \/ \E u \in TUsers, k \in RKeys, b \in BOOLEAN, l \in LogPrefixes :
       SerialFollowDeleteEvent(u, k, b, l)
  \/ \E f \in FollowIds : FollowHasMonitoringEnabled(f)
  \/ \E f \in FollowIds : FollowResolveHandle(f)
  \/ \E f \in FollowIds : FollowGetMonitoredFollows(f)
  \/ \E f \in FollowIds : FollowAddMonitoredFollows(f)
  \/ \E f \in FollowIds : FollowReloadDIDsNow(f)
  \/ \E f \in FollowIds : FollowGetFollowDIDByRkey(f)
  \/ \E f \in FollowIds : FollowRemoveMonitoredFollowByRkey(f)
  \/ \E f \in FollowIds : FollowGetAllMonitoredDIDs(f)
  \/ \E f \in FollowIds : FollowReturns(f)
  \/ \E f \in FollowIds : FollowThrows(f)

\* follow events handled one after the other
SpecFollowSerial == InitFollowSerial /\ [][NextFollowSerial]_vars

\* a user whose POST /enable registered as many follows as the global limit
\* allows (currentCount + netNewCount = MAX_WANTED_DIDS)
InitOptions ==
  /\ InitCommon
  /\ serial = FALSE
  /\ monitored_follows =
       {[user_did |-> "did:plc:u1", follow_did |-> d, follow_handle |-> handleOf(d),
         rkey |-> Null] : d \in {"did:plc:a", "did:plc:b", "did:plc:c"}}

\* the main stream receives the create of one more follow record of the user
OneMoreFollow(rkey) ==
  /\ received = 0
  /\ FollowCreateEvent("did:plc:u1", "did:plc:d", rkey, FALSE, Undefined)

NextOptions ==
  \/ \E k \in RKeys : OneMoreFollow(k)
  \/ \E f \in FollowIds : FollowHasMonitoringEnabled(f)
  \/ \E f \in FollowIds : FollowResolveHandle(f)
  \/ \E f \in FollowIds : FollowGetMonitoredFollows(f)
  \/ \E f \in FollowIds : FollowAddMonitoredFollows(f)
  \/ \E f \in FollowIds : FollowReloadDIDsNow(f)
  \/ \E f \in FollowIds : FollowReturns(f)
  \/ MainStart(<<>>)
  \/ \E k \in ReloadIds : ReloadGetAllMonitoredDIDs(k)
  \/ \E k \in ReloadIds : ReloadGetMonitoringUsers(k)
  \/ \E k \in ReloadIds : ReloadGetIgnoredUsers(k)
  \/ \E k \in ReloadIds : ReloadGetMonitoringUserCount(k)
  \/ \E s \in SocketIds : MainSocketOpen(s)
  \/ \E s \in SocketIds : MainSocketClose(s)
  \/ MainReconnectTimer
  \/ \E u \in TUsers : PostBackfill(u)
  \/ \E k \in TaskIds : StartGetIgnoredUsers(k)
  \/ \E k \in TaskIds : StartMarkStarted(k)
  \/ \E s \in ServiceIds : TempSocketOpen(s)

\* the options messages of the main stream and of the temporary streams, with
\* follow events growing a user's follow list
SpecOptions == InitOptions /\ [][NextOptions]_vars

NextEnable ==
  \/ \E u \in TUsers : EnableRequest(u)
  \/ \E u \in TUsers : EnableAddMonitoredFollows(u)
  \/ \E u \in TUsers : EnableReloadDIDsNow(u)
  \/ \E u \in TUsers : DisableRequest(u)
  \/ \E u \in TUsers : DisableRemoveMonitoredFollows(u)
  \/ \E u \in TUsers : DisableReloadDIDsNow(u)
  \/ \E u \in TUsers : PostBackfill(u)
  \/ \E k \in TaskIds : StartGetIgnoredUsers(k)
  \/ \E k \in TaskIds : StartMarkStarted(k)
  \/ \E s \in ServiceIds : TempCatchUp(s)
  \/ \E k \in TaskIds : FinalizeMarkCompleted(k)

\* users enabling, disabling and re-enabling monitoring while the admin starts
\* backfills that occupy the pool of temporary streams
SpecEnable == InitDB /\ [][NextEnable]_vars

NextStopUser ==
  \/ EnableRequest("did:plc:u2")
  \/ EnableAddMonitoredFollows("did:plc:u2")
  \/ EnableReloadDIDsNow("did:plc:u2")
  \/ DisableRequest("did:plc:u2")
  \/ DisableRemoveMonitoredFollows("did:plc:u2")
  \/ DisableReloadDIDsNow("did:plc:u2")
  \/ \E u \in TUsers : StartForUser(u, followsOf(u))
  \/ \E k \in TaskIds : StartGetIgnoredUsers(k)
  \/ \E k \in TaskIds : StartMarkStarted(k)
  \/ \E s \in ServiceIds : TempCatchUp(s)
  \/ \E k \in TaskIds : FinalizeMarkCompleted(k)

\* one user enabling and disabling monitoring while startForUser is called for
\* the users (the auto-restart, the admin) and the pool fills and drains
SpecStopUser == InitDB /\ [][NextStopUser]_vars

\* a boot with monitoring users whose persisted follows are the follows the
\* follow graph has, and did:plc:c, which did:plc:u1 follows no longer
InitSync ==
  /\ InitCommon
  /\ serial = FALSE
  /\ monitored_follows =
       UNION {{[user_did |-> u, follow_did |-> d, follow_handle |-> handleOf(d),
                rkey |-> Null] : d \in {"did:plc:a", "did:plc:b", "did:plc:c"}} : u \in TUsers}

NextSync ==
  \/ StartSync
  \/ SyncGetMonitoringUsers
  \/ SyncFetchFollowsForUsers
  \/ SyncGetMonitoredFollowsBatch
  \/ SyncRemoveMonitoredFollow
  \/ SyncAddMonitoredFollows
  \/ SyncThrows
  \/ \E k \in ReloadIds : ReloadGetAllMonitoredDIDs(k)
  \/ \E k \in ReloadIds : ReloadGetMonitoringUsers(k)
  \/ \E k \in ReloadIds : ReloadGetIgnoredUsers(k)
  \/ \E k \in ReloadIds : ReloadGetMonitoringUserCount(k)

\* the start of the service with its follow sync, the fetches of the follow
\* graph complete, failed or cut off
SpecSync == InitSync /\ [][NextSync]_vars

\* the upstream has one more event, with one handler at most
OneMoreEvent(kind) ==
  /\ Len(log) < MaxProcessEvents
  /\ UpstreamEvent(kind)

NextProcess ==
  \/ MainStart(<<>>)
  \/ \E k \in ReloadIds : ReloadGetAllMonitoredDIDs(k)
  \/ \E k \in ReloadIds : ReloadGetMonitoringUsers(k)
  \/ \E k \in ReloadIds : ReloadGetIgnoredUsers(k)
  \/ \E k \in ReloadIds : ReloadGetMonitoringUserCount(k)
  \/ \E s \in SocketIds : MainSocketOpen(s)
  \/ \E kind \in {"identity", "account"} : OneMoreEvent(kind)
  \/ \E s \in SocketIds : MainMessage(s)
  \/ \E h \in Handlers : HandlerAttemptSucceeds(h)
  \/ \E h \in Handlers : HandlerAttemptFails(h)
  \/ \E u \in TUsers : PostBackfill(u)
  \/ \E k \in TaskIds : StartGetIgnoredUsers(k)
  \/ \E k \in TaskIds : StartMarkStarted(k)
  \/ \E s \in ServiceIds, h \in Handlers : TempHandlerAttemptSucceeds(s, h)
  \/ \E s \in ServiceIds, h \in Handlers : TempHandlerAttemptFails(s, h)
  \/ \E s \in ServiceIds : TempMessage(s)

\* the main stream and a temporary stream processing the events of the upstream
SpecProcess == InitCursor /\ [][NextProcess]_vars

NextReconnect ==
  \/ MainStart(<<>>)
  \/ ReloadDIDsNow
  \/ \E k \in ReloadIds : ReloadGetAllMonitoredDIDs(k)
  \/ \E k \in ReloadIds : ReloadGetMonitoringUsers(k)
  \/ \E k \in ReloadIds : ReloadGetIgnoredUsers(k)
  \/ \E k \in ReloadIds : ReloadGetMonitoringUserCount(k)
  \/ \E s \in SocketIds : MainSocketOpen(s)
  \/ \E s \in SocketIds : MainSocketClose(s)
  \/ MainReconnectTimer
  \/ OneMoreEvent("account")
  \/ \E s \in SocketIds : MainMessage(s)
  \/ PostEnable("did:plc:u2")

\* the main stream with events moving its cursor while a second user enables
\* monitoring
SpecReconnect == InitCursor /\ [][NextReconnect]_vars

NextStop ==
  \/ MainStart(<<>>)
  \/ \E k \in ReloadIds : ReloadGetAllMonitoredDIDs(k)
  \/ \E k \in ReloadIds : ReloadGetMonitoringUsers(k)
  \/ \E k \in ReloadIds : ReloadGetIgnoredUsers(k)
  \/ \E k \in ReloadIds : ReloadGetMonitoringUserCount(k)
  \/ \E s \in SocketIds : MainSocketOpen(s)
  \/ \E s \in SocketIds : MainSocketClose(s)
  \/ MainReconnectTimer
  \/ OneMoreEvent("identity")
  \/ \E s \in SocketIds : MainMessage(s)
  \/ \E h \in Handlers : HandlerAttemptSucceeds(h)
  \/ MainStop
  \/ StopSaveCursor
  \/ StopSaveTime

\* the main stream started, receiving identity events, losing its connection
\* and stopped while handlers are waiting for the database
SpecStop == InitCursor /\ [][NextStop]_vars

\* finalizeStream with the database available: withDBRetry(markBackfillCompleted)
\* resolves
FinalizeMarkCompletedResolves(k) ==
  /\ FinalizeMarkCompleted(k)
  /\ monitoring_backfill_state' = markBackfillCompleted(monitoring_backfill_state, mt[k].userDID)

\* the catch block of startStreamForUser with the database available:
\* withDBRetry(markBackfillCompleted) resolves
StartFailedMarkCompletedResolves(k) ==
  /\ StartFailedMarkCompleted(k)
  /\ monitoring_backfill_state' = markBackfillCompleted(monitoring_backfill_state, mt[k].userDID)

NextBackfill ==
  \/ Tick
  \/ \E u \in TUsers : StartForUser(u, followsOf(u))
  \/ \E k \in TaskIds : StartGetIgnoredUsers(k)
  \/ \E k \in TaskIds : StartMarkStarted(k)
  \/ \E k \in TaskIds : StartMarkStartedStartThrows(k)
  \/ \E k \in TaskIds : StartFailedMarkCompletedResolves(k)
  \/ \E u \in TUsers : StopForUser(u)
  \/ \E s \in ServiceIds : TempCatchUp(s)
  \/ \E k \in TaskIds : FinalizeMarkCompletedResolves(k)

\* the temporary backfill manager with a database that answers every call
SpecBackfill == InitDB /\ [][NextBackfill]_vars

NextCatchUp ==
  \/ Tick
  \/ StartForUser("did:plc:u1", followsOf("did:plc:u1"))
  \/ \E k \in TaskIds : StartGetIgnoredUsers(k)
  \/ \E k \in TaskIds : StartMarkStarted(k)
  \/ OneMoreEvent("identity")
  \/ \E s \in ServiceIds : TempMessage(s)
  \/ \E s \in ServiceIds, h \in Handlers : TempHandlerAttemptSucceeds(s, h)
  \/ \E s \in ServiceIds : TempSocketClose(s)
  \/ \E s \in ServiceIds : TempReconnectTimer(s)
  \/ \E s \in ServiceIds : TempLiveMessage(s)
  \/ \E s \in ServiceIds : TempLateMessage(s)
  \/ \E s \in ServiceIds : TempClosingSocketCloses(s)
  \/ \E k \in TaskIds : FinalizeMarkCompletedResolves(k)

\* temporary streams replaying old events, losing and regaining their
\* connection and catching up with the live events
SpecCatchUp == InitDB /\ [][NextCatchUp]_vars

\* a boot with two monitoring users in the database
InitBoot ==
  /\ InitCommon
  /\ serial = FALSE
  /\ monitored_follows =
       UNION {{[user_did |-> u, follow_did |-> d, follow_handle |-> handleOf(d),
                 rkey |-> Null] : d \in followsOf(u)} : u \in TUsers}

NextBoot ==
  \/ Tick
  \/ \E u \in TUsers, completed \in BOOLEAN : PreviousBackfill(u, completed)
  \/ MainStart(<<>>)
  \/ \E k \in ReloadIds : ReloadGetAllMonitoredDIDs(k)
  \/ \E k \in ReloadIds : ReloadGetMonitoringUsers(k)
  \/ \E k \in ReloadIds : ReloadGetIgnoredUsers(k)
  \/ \E k \in ReloadIds : ReloadGetMonitoringUserCount(k)
  \/ \E s \in SocketIds : MainSocketOpen(s)
  \/ OneMoreEvent("account")
  \/ \E s \in SocketIds : MainMessage(s)
  \/ BootFirstCheck
  \/ BootTimer
  \/ BootGetMonitoringUserCounts
  \/ BootRestartNext
  \/ \E k \in TaskIds : StartGetIgnoredUsers(k)
  \/ \E k \in TaskIds : StartMarkStarted(k)

\* the server starting on a database an earlier run has left backfills in
SpecBoot == InitBoot /\ [][NextBoot]_vars

NextStart ==
  \/ MainStart(<<>>)
  \/ MainStartAgain
  \/ MainStop
  \/ PostEnable("did:plc:u1")
  \/ ReloadDIDsNow
  \/ \E k \in ReloadIds : ReloadGetAllMonitoredDIDs(k)
  \/ \E k \in ReloadIds : ReloadGetMonitoringUsers(k)
  \/ \E k \in ReloadIds : ReloadGetIgnoredUsers(k)
  \/ \E k \in ReloadIds : ReloadGetMonitoringUserCount(k)
  \/ \E s \in SocketIds : MainSocketOpen(s)
  \/ \E s \in SocketIds : MainSocketClose(s)
  \/ MainReconnectTimer

\* the main stream started, started again, stopped and reconciled by the admin
\* and the routes, with sockets that close
SpecStart == InitCursor /\ [][NextStart]_vars

\* a stream handing follow and unfollow events of monitoring users to
\* handleFollowEvent
SpecFollow == InitFollow /\ [][NextFollow]_vars

NextResume ==
  \/ Tick
  \/ \E d \in {-1, 0} : DayPasses(d)
  \/ \E hasCursor \in BOOLEAN, d \in CursorOffsets : PostJetstreamStart(hasCursor, d)
  \/ \E k \in ReloadIds : ReloadGetAllMonitoredDIDs(k)
  \/ \E k \in ReloadIds : ReloadGetMonitoringUsers(k)
  \/ \E k \in ReloadIds : ReloadGetIgnoredUsers(k)
  \/ MainStop
  \/ StopSaveCursor
  \/ StopSaveTime
  \/ GetRecommendedStartCursor
  \/ RecommendLoadCursor
  \/ RecommendLoadTime
  \/ RecommendReturns
  \/ Restart

\* the service of an installation nobody has enabled monitoring on yet:
\* started with and without a cursor, stopped, asked for the cursor to resume
\* from and restarted, one request at a time
SpecResume == InitDB /\ [][NextResume]_vars

\* the main stream receiving events and resuming from its cursor
SpecCursor == InitCursor /\ [][NextCursor]_vars

\* the main stream reconciling its DID list with the tables
SpecReload == InitDB /\ [][NextReload]_vars

\* concurrent callers (main stream, temporary stream, API)
SpecDB == InitDB /\ [][NextDB]_vars
\* one insertChange call at a time
SpecDBSeq == InitDBSeq /\ [][NextDB]_vars

(***************************************************************************)
(* C1: no two profile_changes rows agree on did and the six old/new       *)
(* columns under null-equal comparison, whatever the interleaving of       *)
(* concurrent inserts.                                                     *)
(***************************************************************************)
SameTuple(a, b) ==
  /\ a.did = b.did
  /\ \A f \in TupleFields : IsNotDistinctFrom(a[f], b[f])

C1_NoDuplicateRows ==
  \A a, b \in profile_changes : SameTuple(a, b) => a.id = b.id

(***************************************************************************)
(* C2: two insertChange calls in sequence with the same change for a DID   *)
(* that is not ignored leave exactly one matching row, and the second call *)
(* returns the row the first call stored.                                  *)
(***************************************************************************)
TwiceInSequence ==
  /\ prevCall.kind = "call" /\ lastCall.kind = "call"
  /\ prevCall.change = lastCall.change
  /\ ~dirtyA
  /\ lastCall.change.did \notin ignored_users

C2_SecondInsertReturnsFirstRow ==
  TwiceInSequence =>
    /\ Cardinality(DuplicateRows(lastCall.change)) = 1
    /\ lastCall.result.kind = "row"
    /\ lastCall.result.row \in profile_changes
    /\ lastCall.result = prevCall.result

C2_Witness ==
  /\ TwiceInSequence
  /\ lastCall.result.kind = "row"
  /\ lastCall.result = prevCall.result
  /\ lastCall.change.old_display_name = Undefined

(***************************************************************************)
(* C8: once addIgnoredUser(did) has committed, and until the DID is        *)
(* un-ignored, profile_changes holds no row of that DID.                   *)
(***************************************************************************)
C8_IgnoredHaveNoChanges ==
  \A r \in profile_changes : r.did \notin ignored_users

(***************************************************************************)
(* C5: the active-stream table never holds more than                       *)
(* maxConcurrentTempStreams entries.                                       *)
(***************************************************************************)
C5_ActiveWithinCapacity == ActiveSize <= maxConcurrentTempStreams

(***************************************************************************)
(* C6: while the wait queue is non-empty the active-stream table holds     *)
(* exactly maxConcurrentTempStreams entries.                               *)
(***************************************************************************)
C6_QueueOnlyWhenFull == queue # <<>> => ActiveSize = maxConcurrentTempStreams

(***************************************************************************)
(* C7: every queued request is eventually promoted, also past a promotion  *)
(* that found nothing to stream or failed to start.  Promotions happen in  *)
(* manager operations only, so the manager never comes to rest (no         *)
(* operation in flight, no stream left that could finish) with a request   *)
(* still in the queue.                                                     *)
(***************************************************************************)
ManagerAtRest ==
  /\ \A k \in TaskIds : mt[k].pc = "idle"
  /\ \A s \in ServiceIds : ~svc[s].used

C7_NoRequestLeftBehind == ManagerAtRest => queue = <<>>

(***************************************************************************)
(* C10: every user in the active-stream table has a backfill-state row     *)
(* with last_started_at set and last_completed_at null or earlier.         *)
(***************************************************************************)
BackfillInFlight(row) ==
  /\ row.present
  /\ row.last_started_at # NullTime
  /\ \/ row.last_completed_at = NullTime
     \/ row.last_completed_at < row.last_started_at

C10_ActiveHaveOpenBackfill ==
  \A u \in ActiveUsers : BackfillInFlight(monitoring_backfill_state[u])

(***************************************************************************)
(* C9: after every DID-set reconciliation the DID list of the next options *)
(* message of the main stream contains the own DID of every monitoring     *)
(* user.  Read with every write followed by its reconciliation, every      *)
(* reconciliation finished and none of them failed.                        *)
(***************************************************************************)
Reconciled ==
  /\ reloadsPending = 0
  /\ \A k \in ReloadIds : rl[k].pc = "idle"
  /\ ~reloadFailed

C9_OptionsListEveryMonitoringUser ==
  Reconciled => getMonitoringUsers \subseteq Range(buildOptionsUpdateMessage(currentDIDs))

(***************************************************************************)
(* C3, for the main stream: with the events delivered in the order of      *)
(* their time_us, lastCursor never decreases between start and stop,       *)
(* whatever the interleaving of the event handlers.                        *)
(***************************************************************************)
C3_MainCursorNeverDecreases ==
  [][lastCursor # NullTime /\ lastCursor' # NullTime => lastCursor' >= lastCursor]_vars

(***************************************************************************)
(* C4: while an event whose handling failed after the retries has not been *)
(* handled successfully, the cursor of the main stream, which the next     *)
(* connect uses, is not greater than the time_us of that event.            *)
(***************************************************************************)
C4_CursorNotPastFailedEvent ==
  \A i \in failed : lastCursor = NullTime \/ lastCursor <= TimeUs(i)

(***************************************************************************)
(* C11: the main stream holds an upstream connection exactly when its DID  *)
(* list is non-empty.  With an empty list no socket is connecting or open; *)
(* and a started service that should run and has a non-empty list does not *)
(* come to rest (no reconciliation requested or in flight, no reconnect    *)
(* timer, no socket about to raise its close event) without a socket that  *)
(* is connecting or open: a connection is eventually opened.  Read with no *)
(* reconciliation failed.                                                  *)
(***************************************************************************)
Connected == \E s \in SocketIds : sockets[s].state \in {"connecting", "open"}

MainAtRest ==
  /\ reloadsPending = 0
  /\ \A k \in ReloadIds : rl[k].pc = "idle"
  /\ ~reloadFailed
  /\ reconnectTimers = 0
  /\ \A s \in SocketIds : sockets[s].state # "closing"

C11_ConnectionIffDIDs ==
  MainAtRest =>
    /\ currentDIDs = <<>> => ~Connected
    /\ shouldRun /\ startTime # NullTime /\ currentDIDs # <<>> => Connected

(***************************************************************************)
(* C12: a startForUser call made while the pool is at capacity is enqueued *)
(* and its result is {queued: true, position} with position the 1-based    *)
(* place of the request in the wait queue at the moment it was enqueued.   *)
(***************************************************************************)
C12_PositionIsPlaceAtEnqueue ==
  startResult.settled /\ startResult.queuePosition # 0 =>
    /\ startResult.queued
    /\ startResult.position = startResult.queuePosition

(***************************************************************************)
(* C13: the wait queue is FIFO, and no request that arrives while a        *)
(* request is waiting in the queue is started before it: startForUser      *)
(* hands a request to startStreamForUser directly only when the queue is   *)
(* empty, and a promotion takes the request that has waited longest.       *)
(***************************************************************************)
C13_NoOvertaking ==
  [][\A k \in TaskIds :
       mt[k].pc # "getIgnoredUsers" /\ mt'[k].pc = "getIgnoredUsers" =>
         IF mt'[k].queuePosition = 0
           THEN queue = <<>>
           ELSE /\ queue # <<>>
                /\ mt'[k].userDID = Head(queue).userDID
                /\ queue' = Tail(queue)]_vars

(***************************************************************************)
(* C14: while the socket of the main stream is disconnected (its close     *)
(* event has been raised and no connection has replaced it yet),           *)
(* getMainStreamStatus() reports isRunning = false and hasValidCursor =    *)
(* false.                                                                  *)
(***************************************************************************)
Disconnected == ws # 0 /\ sockets[ws].state = "closed"

C14_DisconnectedIsNotRunning ==
  Disconnected =>
    /\ ~getMainStreamStatus.isRunning
    /\ ~getMainStreamStatus.hasValidCursor

(***************************************************************************)
(* C15: handleIdentityEvent persists a change record only if the resolved  *)
(* old handle and the new handle of the event are both non-empty and       *)
(* differ: it calls insertChange in that case only, and every row that     *)
(* carries an old or a new handle carries both, and they differ.  Whenever *)
(* the handler gets past its lookups, with or without a change, the        *)
(* snapshot of the DID gets the new handle and keeps the displayName and   *)
(* avatarRef it had.                                                       *)
(***************************************************************************)
BeforeSnapshot == {"idle", "getLastKnownHandle", "resolveHandle"}

IdentityPersistsOnlyChanges ==
  \A h \in HandlerIds :
    ht[h].kind = "identity" /\ ht[h].pc = "insertChange" =>
      ht[h].oldHandle # "" /\ ht[h].newHandle # "" /\ ht[h].oldHandle # ht[h].newHandle

HandleRowsAreChanges ==
  \A r \in profile_changes :
    r.old_handle # Null \/ r.new_handle # Null =>
      /\ Truthy(r.old_handle) /\ Truthy(r.new_handle)
      /\ r.old_handle # r.new_handle

IdentityUpdatesSnapshot ==
  \A h \in HandlerIds :
    /\ ht'[h].kind = "identity"
    /\ ht[h].pc \in BeforeSnapshot
    /\ ht'[h].pc \notin BeforeSnapshot
    => profileData'[ht'[h].did] =
         [present |-> TRUE,
          handle |-> ht'[h].newHandle,
          displayName |-> profileData[ht'[h].did].displayName,
          avatarRef |-> profileData[ht'[h].did].avatarRef]

C15_IdentityPersistsChangesAndUpdatesSnapshot ==
  /\ [](IdentityPersistsOnlyChanges /\ HandleRowsAreChanges)
  /\ [][IdentityUpdatesSnapshot]_vars

\* a handle change has been persisted for a DID whose snapshot had a
\* display name, and the snapshot has the new handle and still the name
C15_Witness ==
  \E r \in profile_changes :
    /\ r.change_type = "handle"
    /\ profileData[r.did].handle = r.new_handle
    /\ profileData[r.did].displayName # ""

(***************************************************************************)
(* C16: the first profile commit a stream receives for a DID produces no   *)
(* change record, whatever events for the DID came before; insertChange is *)
(* called only for a later profile commit whose displayName or avatar      *)
(* differs from the values of the snapshot.                                *)
(***************************************************************************)
C16_FirstProfileCommitNotPersisted ==
  \A h \in HandlerIds :
    ht[h].kind = "commit" /\ ht[h].pc = "insertChange" =>
      /\ ~ht[h].first
      /\ \/ ht[h].newDisplayName # ht[h].oldDisplayName
         \/ ht[h].newAvatarRef # ht[h].oldAvatarRef

(***************************************************************************)
(* C17: a follow-create event of a monitoring user, handled by the live    *)
(* main stream or by a temporary stream: when the pair was not persisted,  *)
(* monitored_follows has the row (follower, subject, handle, record key)   *)
(* when the handler returns and a reconciliation of the DID set has been   *)
(* requested; when the pair was persisted, the row is left as it is and no *)
(* reconciliation is requested.                                            *)
(***************************************************************************)
C17_FollowCreatePersistsAndReconciles ==
  [][\A f \in FollowIds :
       /\ ft[f].operation = "create"
       /\ ft[f].pc # "returned" /\ ft'[f].pc = "returned"
       /\ ft'[f].hasMonitoring /\ ~ft'[f].suppressed
       => IF alreadyExists(ft[f].followerDID, ft[f].subject)
            THEN /\ ~ft'[f].requested
                 /\ monitored_follows' = monitored_follows
            ELSE /\ ft'[f].requested
                 /\ \E r \in monitored_follows' :
                      /\ r.user_did = ft[f].followerDID
                      /\ r.follow_did = ft[f].subject
                      /\ r.follow_handle = handleOf(ft[f].subject)
                      /\ r.rkey = ft[f].rkey]_vars

(***************************************************************************)
(* C18: a follow-delete event with record key k of monitoring user U that  *)
(* is processed while monitored_follows holds a row of U with record key   *)
(* k: the removal leaves no row of U with key k and touches no other row,  *)
(* and the handler requests a reconciliation of the DID set if and only    *)
(* if no row follows the removed DID when it looks after the removal.      *)
(***************************************************************************)
FollowedByAnyone(did) == \E r \in monitored_follows : r.follow_did = did

C18_FollowDeleteRemovesAndReconciles ==
  [][\A f \in FollowIds :
       /\ ft[f].pc = "removeMonitoredFollowByRkey" /\ ft'[f].pc = "getAllMonitoredDIDs"
          => /\ \A r \in monitored_follows' :
                  ~(r.user_did = ft[f].followerDID /\ r.rkey = ft[f].rkey)
             /\ \A r \in monitored_follows :
                  r.user_did # ft[f].followerDID \/ r.rkey # ft[f].rkey
                  => r \in monitored_follows'
       /\ ft[f].pc = "getAllMonitoredDIDs" /\ ft'[f].pc = "returned"
          => /\ ft'[f].requested <=> ~FollowedByAnyone(ft[f].subject)
             /\ ft'[f].requested <=> reloadsPending' = reloadsPending + 1
             /\ monitored_follows' = monitored_follows]_vars

\* both users have unfollowed the account they shared: the first handler
\* has requested nothing, the second one a reconciliation
C18_Witness ==
  \E f, g \in FollowIds :
    /\ ft[f].operation = "delete" /\ ft[f].pc = "returned"
    /\ ft[g].operation = "delete" /\ ft[g].pc = "returned"
    /\ ft[f].subject = "did:plc:a" /\ ft[g].subject = "did:plc:a"
    /\ ft[f].followerDID # ft[g].followerDID
    /\ ~ft[f].requested /\ ft[g].requested
    /\ ~FollowedByAnyone("did:plc:a")

(***************************************************************************)
(* C19: after a stop() that found a cursor C, getRecommendedStartCursor()  *)
(* returns C when it is called less than 24 h after that stop, in the      *)
(* process of the stop or in a later one that reads the stored cursor and  *)
(* time; it returns the current time as a cursor when that stop is 24 h    *)
(* old or older and when no stop found a cursor.                           *)
(***************************************************************************)
C19_RecommendedCursorResumes ==
  [][gr.pc # "returned" /\ gr'.pc = "returned"
     => gr'.result =
          IF stopRan.cursor # NullTime /\ (now - stopRan.at) * TickMs < twentyFourHours
            THEN CursorMicros(stopRan.cursor)
            ELSE Micros(now * TickMs, 0)]_vars

\* a process constructed after the stop has returned the cursor of the stop
C19_Witness ==
  /\ gr.pc = "returned"
  /\ stopRan.cursor # NullTime
  /\ now > stopRan.at
  /\ shouldRun /\ startTime = NullTime
  /\ gr.result = CursorMicros(stopRan.cursor)

(***************************************************************************)
(* C20: a start(cursor) whose cursor is exactly 60 s older than the wall   *)
(* clock leaves inBackfill true.                                           *)
(***************************************************************************)
C20_OneMinuteOldCursorIsBackfill ==
  [][/\ startTime = NullTime /\ startTime' # NullTime
     /\ now <= MaxNow
     /\ lastCursor' = (now * TickMs - 60000) * 1000
     => isInActualBackfill']_vars

(***************************************************************************)
(* C20 as the code has it: a start(cursor) sets inBackfill exactly when    *)
(* the cursor is more than 60 s older than the wall clock; with a cursor   *)
(* exactly 60 s older it is false.                                         *)
(***************************************************************************)
C20_OlderThanOneMinuteIsBackfill ==
  [][/\ startTime = NullTime /\ startTime' # NullTime
     /\ now <= MaxNow
     /\ lastCursor' # NullTime
     => /\ isInActualBackfill' <=> now * TickMs * 1000 - lastCursor' > 60000 * 1000
        /\ lastCursor' = (now * TickMs - 60000) * 1000 => ~isInActualBackfill']_vars

\* a start with a cursor of exactly 60 s ago is under way, not in backfill
C20_Witness ==
  /\ startTime = now /\ now <= MaxNow
  /\ lastCursor # NullTime
  /\ lastCursor = (now * TickMs - 60000) * 1000
  /\ \E k \in ReloadIds : rl[k].pc # "idle" /\ rl[k].connectAfter
  /\ ~isInActualBackfill


\* C21: every options message sent upstream, by the main stream and by a
\* temporary stream, lists at most MAX_WANTED_DIDS wanted DIDs, and the main
\* stream's message lists the first MAX_WANTED_DIDS entries of its reconciled
\* list, which starts with the monitoring users
C21_OptionsListAtMostMaxWantedDids ==
  /\ Len(wantedDids) <= MAX_WANTED_DIDS
  /\ \A s \in ServiceIds : Cardinality(tempWantedDids[s]) <= MAX_WANTED_DIDS
  /\ (ws # 0 /\ sockets[ws].state = "open" /\ Len(currentDIDs) > MAX_WANTED_DIDS) =>
       \/ wantedDids = SubSeq(currentDIDs, 1, MAX_WANTED_DIDS)
       \/ \E k \in ReloadIds : rl[k].pc # "idle"

(***************************************************************************)
(* C22: enabling monitoring for user U with follow set F, disabling, and   *)
(* re-enabling with F leaves the same persisted follow set for U as the    *)
(* first enable did, whatever the pool of temporary streams holds at each  *)
(* request.                                                                *)
(***************************************************************************)
C22_ReEnableRestoresFollowSet ==
  \A u \in TUsers :
    er[u].pc = "idle" /\ er[u].requests = 3 => persistedFollows(u) = er[u].first

(***************************************************************************)
(* C23: within one stream events are handled serially in arrival order:    *)
(* the handling of an event, its database and resolver calls included,     *)
(* begins only when the handling of every event that arrived earlier has   *)
(* finished, so that no two events of the stream are in handling at once.  *)
(***************************************************************************)
C23_EventsHandledSerially ==
  \A g, h \in handlers : g.event = h.event

(***************************************************************************)
(* C24: in the main stream and in every temporary stream lastCursor is set *)
(* to the time_us of an event only after the handlers of that event have   *)
(* completed successfully: a step that moves a cursor to an event finishes *)
(* that event's handling, and a step in which a handler fails for good     *)
(* leaves the cursor where it was.                                         *)
(***************************************************************************)
MainHandlingFinishes(i) ==
  \/ \E h \in handlers : h.event = i /\ h \notin handlers' /\ i \notin failed'
                           /\ \A g \in handlers' : g.event # i
  \/ \E s \in SocketIds : sockets[s].next = i /\ sockets'[s].next = i + 1
                            /\ log[i] \notin {"identity", "commit"}

TempHandlingFinishes(s, i) ==
  \/ \E h \in tp[s].handlers : h.event = i /\ h \notin tp'[s].handlers /\ i \notin tp'[s].failed
                                 /\ \A g \in tp'[s].handlers : g.event # i
  \/ tp[s].next = i /\ tp'[s].next = i + 1 /\ log[i] \notin {"identity", "commit"}

C24_CursorSetAfterHandlers ==
  [][/\ \A i \in 1..MaxEvents :
          lastCursor' # lastCursor /\ lastCursor' = TimeUs(i) => MainHandlingFinishes(i)
     /\ failed' # failed /\ failed \subseteq failed' => lastCursor' = lastCursor
     /\ \A s \in ServiceIds :
          /\ \A i \in 1..MaxEvents :
               svc'[s].lastCursor # svc[s].lastCursor /\ svc'[s].lastCursor = TimeUs(i)
                 => TempHandlingFinishes(s, i)
          /\ tp'[s].failed # tp[s].failed /\ tp[s].failed \subseteq tp'[s].failed
                 => svc'[s].lastCursor = svc[s].lastCursor]_vars

(***************************************************************************)
(* C25: when a handler has detected the change of an event and the attempt *)
(* to persist it failed with a database error, a later attempt of the      *)
(* retry wrapper that succeeds leaves a row of the change: when the        *)
(* wrapper reports success for a non-ignored DID, the detected change is   *)
(* in profile_changes.                                                     *)
(***************************************************************************)
C25_DetectedChangePersistedOnRetry ==
  \A h \in HandlerIds :
    ht[h].pc = "returned" /\ ht[h].detected /\ ht[h].did \notin ignored_users
      => \E r \in profile_changes : r.did = ht[h].did /\ r.new_handle = ht[h].newHandle

(***************************************************************************)
(* C26: when a reconciliation finds the DID list changed while a socket    *)
(* exists, the socket is closed with the attempt counter at 0; the close   *)
(* handler then schedules the reconnect with delay 0, the connection made  *)
(* by the timer resumes from lastCursor, and the options message sent when *)
(* it opens lists the DID set of that moment: the service does not come to *)
(* rest with a socket without a connection that got the current list.      *)
(***************************************************************************)
ChangeFoundWithSocket ==
  \E k \in ReloadIds : /\ rl[k].pc = "getMonitoringUserCount"
                        /\ rl'[k].pc = "idle"
                        /\ reloadFailed' = reloadFailed
                        /\ ws # 0

CloseHandlerRuns ==
  \E s \in SocketIds : /\ sockets[s].state \in {"connecting", "open", "closing"}
                        /\ sockets'[s].state \in {"closed", "free"}
                        /\ shouldRun

C26_ChangedListReconnectsAtOnce ==
  /\ [][/\ ChangeFoundWithSocket =>
             /\ reconnectAttempts' = 0
             /\ sockets'[ws].state \in {"closing", "closed"}
             /\ currentDIDs' = rl[CHOOSE k \in ReloadIds : rl[k].pc = "getMonitoringUserCount"
                                                           /\ rl'[k].pc = "idle"].dids
        /\ CloseHandlerRuns /\ reconnectAttempts' = 0 =>
             /\ reconnectDelay(reconnectAttempts) = 0
             /\ reconnectTimers' = reconnectTimers + 1
        /\ reconnectTimers' < reconnectTimers /\ currentDIDs # <<>> =>
             /\ ws' # 0
             /\ sockets'[ws'].state = "connecting"
             /\ sockets'[ws'].cursor = lastCursor
        /\ \A s \in SocketIds :
             sockets[s].state = "connecting" /\ sockets'[s].state = "open" /\ ws = s =>
               wantedDids' = buildOptionsUpdateMessage(currentDIDs)]_vars
  /\ [](MainAtRest /\ shouldRun /\ ws # 0 /\ currentDIDs # <<>> =>
          /\ sockets[ws].state \in {"connecting", "open"}
          /\ sockets[ws].state = "open" => wantedDids = buildOptionsUpdateMessage(currentDIDs))

C26_Witness ==
  /\ ws # 0
  /\ sockets[ws].state = "open"
  /\ sockets[ws].cursor # NullTime
  /\ "did:plc:u2" \in Range(currentDIDs)
  /\ wantedDids = buildOptionsUpdateMessage(currentDIDs)

(***************************************************************************)
(* C27: the DID-set reconciliations of the main stream are serialized: at  *)
(* most one reloadDIDs call is between its first query and its return at   *)
(* any time (a request made meanwhile waits instead of executing).         *)
(***************************************************************************)
C27_ReconciliationsSerialized ==
  Cardinality({k \in ReloadIds : rl[k].pc # "idle"}) <= 1

(***************************************************************************)
(* C28: when the socket of the main stream closes without a reconciliation *)
(* having closed it, while the service should run, the next connection     *)
(* attempt is delayed by min(2^n s, 30 s), n >= 1 counting the failed      *)
(* attempts since the last successful open: the delay is never zero.       *)
(***************************************************************************)
ConnectionLost ==
  \E s \in SocketIds : /\ sockets[s].state \in {"connecting", "open"}
                        /\ sockets'[s].state \in {"closed", "free"}
                        /\ shouldRun

C28_LostConnectionBacksOff ==
  [][ConnectionLost =>
       /\ reconnectAttempts' >= 1
       /\ reconnectDelay(reconnectAttempts) = Min(1000 * 2^reconnectAttempts', 30000)
       /\ reconnectDelay(reconnectAttempts) > 0]_vars
\* C29: after stop() has completed and until the next start(), no upstream
\* socket is connecting or open, no reconnect timer is pending, and lastCursor
\* and startTime are null, whatever handlers were in flight and whatever
\* timers were pending when stop() was called
C29_StoppedServiceStaysStopped ==
  stoppedAt # NullTime /\ ~shouldRun /\ sp = IdleStop
  => /\ \A s \in SocketIds : sockets[s].state \notin {"connecting", "open"}
     /\ reconnectTimers = 0
     /\ lastCursor = NullTime
     /\ startTime = NullTime

\* C30: when a temporary stream has stopped (stopForUser, catch-up or a failed
\* start) and the manager has finished its bookkeeping with every database
\* call answered, the backfill row of the user has last_completed_at set and
\* not earlier than last_started_at
C30_StoppedStreamHasCompletedBackfill ==
  \A u \in TUsers :
    /\ \A k \in TaskIds : mt[k].pc = "idle"
    /\ activeStreams[u] = 0
    /\ \A s \in ServiceIds : ~(svc[s].used /\ svc[s].userDID = u)
    /\ monitoring_backfill_state[u].present
    => /\ monitoring_backfill_state[u].last_completed_at # NullTime
       /\ monitoring_backfill_state[u].last_completed_at
            >= monitoring_backfill_state[u].last_started_at

\* C31: a temporary stream stops at the first event whose time_us / 1000 is
\* not before its startTime: the event reaches no handler, the socket is
\* closed, and from then on the stream has no socket and no reconnect timer
C31_CatchUpStopsForGood ==
  [][\A s \in ServiceIds :
       /\ svc[s].used /\ ~svc[s].hasStopped /\ svc'[s].hasStopped
          => /\ svc'[s].lastCursor \div 1000 >= svc[s].startTime * TickMs
             /\ tp'[s].handlers = tp[s].handlers
             /\ ~svc'[s].shouldRun /\ ~svc'[s].ws /\ ~svc'[s].reconnectTimeout
       /\ svc[s].used /\ svc[s].hasStopped
          => ~svc'[s].ws /\ ~svc'[s].reconnectTimeout]_vars

\* a stream that dispatched an old event, and then caught up
C31_Witness ==
  \E s \in ServiceIds :
    /\ svc[s].used /\ svc[s].hasStopped
    /\ svc[s].lastCursor \div 1000 >= svc[s].startTime * TickMs
    /\ tp[s].next > 1

\* C32: a handleFollowEvent call whose follower has no monitoring at the
\* check, or that comes from the main stream in backfill mode, returns after
\* the check and leaves monitored_follows and the reconciliation requests as
\* they are; a call from a temporary stream is never skipped for backfill
C32_FollowEventSkipped ==
  [][/\ \A f \in FollowIds :
          /\ ft[f].pc = "hasMonitoringEnabled" /\ ft'[f] # ft[f]
             => /\ UNCHANGED <<monitored_follows, reloadsPending>>
                /\ ~hasMonitoringEnabled(ft[f].followerDID) \/ ft[f].suppressed
                   => ft'[f].pc \in {"returned", "idle"}
          /\ ft[f].pc = "returned" /\ ft'[f] # ft[f]
             => UNCHANGED <<monitored_follows, reloadsPending>> /\ ft'[f] = IdleFollow
     /\ \A u \in TUsers, d \in DIDs, k \in RKeys, b \in BOOLEAN :
          /\ FollowCreateEvent(u, d, k, b, "[temp]") => ~ft'[NewFollowId].suppressed
          /\ FollowCreateEvent(u, d, k, TRUE, Undefined) => ft'[NewFollowId].suppressed
     /\ \A u \in TUsers, k \in RKeys, b \in BOOLEAN :
          /\ FollowDeleteEvent(u, k, b, "[temp]") => ~ft'[NewFollowId].suppressed
          /\ FollowDeleteEvent(u, k, TRUE, Undefined) => ft'[NewFollowId].suppressed]_vars

\* a call from the main stream in backfill mode, for a monitoring user, has
\* returned after the check
C32_Witness ==
  \E f \in FollowIds : ft[f].pc = "returned" /\ ft[f].suppressed /\ ft[f].hasMonitoring

\* a user the auto-restart has to serve: monitoring, with follows, and a
\* backfill row that is started and not completed since
NeedsRestart(u) ==
  getMonitoredFollows(u) # {} /\ isPending(monitoring_backfill_state[u])

\* C33: after a restart, once the main stream runs with a valid cursor and the
\* auto-restart has ended, startForUser has been called for every user whose
\* backfill is started and not completed, and for no user whose backfill is
\* completed
C33_PendingBackfillsRestarted ==
  /\ boot.pc = "done" /\ isRunningWithCursor
     => \A u \in TUsers : NeedsRestart(u) => u \in boot.restarted
  /\ \A u \in boot.restarted : monitoring_backfill_state[u].last_completed_at = NullTime

\* C34: a temporary stream that is connected or has a reconnect timer is the
\* one the active-stream table holds for its user, so a user has at most one
\* and none after stopForUser
C34_ConnectedStreamIsRegistered ==
  \A s \in ServiceIds :
    svc[s].used /\ (svc[s].ws \/ svc[s].reconnectTimeout)
    => activeStreams[svc[s].userDID] = s

\* C35: the main stream has at most one socket that is connecting or open and
\* at most one pending reconnect timer, whatever start(), stop(),
\* reloadDIDsNow() and close events have happened
C35_OneSocketOneTimer ==
  /\ Cardinality({s \in SocketIds : sockets[s].state \in {"connecting", "open"}}) <= 1
  /\ reconnectTimers <= 1

(***************************************************************************)
(* C36: once every reconciliation of the main stream that was requested    *)
(* has finished (none in flight, none requested and not yet begun, none    *)
(* failed), currentDIDs is the list computed from the persisted state as   *)
(* it is then: the monitoring users, then the follow targets, without the  *)
(* ignored DIDs, in an order the two queries can return.                   *)
(***************************************************************************)
C36_ListMatchesPersistedState ==
  /\ startTime # NullTime
  /\ reloadsPending = 0
  /\ \A k \in ReloadIds : rl[k].pc = "idle"
  /\ ~reloadFailed
  => \E userDIDs \in Orderings(getMonitoringUsers),
        followedDIDs \in Orderings(getAllMonitoredDIDs) :
       currentDIDs = ReloadList(userDIDs, followedDIDs, ignored_users)

(***************************************************************************)
(* C37: after the stopForUser(U) of a disable request, U has no entry in   *)
(* the active-stream table and no entry in the wait queue (so nothing is   *)
(* left that would start a temporary stream of U later).                   *)
(***************************************************************************)
InQueue(userDID, q) == \E i \in DOMAIN q : q[i].userDID = userDID

C37_StoppedUserHasNoEntry ==
  [][\A u \in TUsers :
       er[u].pc = "idle" /\ er'[u].pc = "removeMonitoredFollows"
       => activeStreams'[u] = 0 /\ ~InQueue(u, queue')]_vars

(***************************************************************************)
(* C38: the follow sync of start() removes a persisted monitored follow of *)
(* a user only when the fetch of that user's follow graph was complete and *)
(* the follow is absent from the fetched list: a fetch that failed or      *)
(* ended early (timeout, response not ok, page cap) removes none.          *)
(***************************************************************************)
C38_OnlyCompleteFetchRemoves ==
  [][\A r \in monitored_follows \ monitored_follows' :
       sync.pc = "user"
       => /\ sync.followsMap[r.user_did].ended = "complete"
          /\ r.follow_did \notin sync.followsMap[r.user_did].follows]_vars

(***************************************************************************)
(* C39: when a follow-create event with record key k for the pair (U, D)   *)
(* has been processed live and a follow-delete event from U with key k is  *)
(* processed afterwards, (U, D) is absent from monitored_follows when the  *)
(* delete has been processed, whatever row the pair had before the create. *)
(***************************************************************************)
C39_DeleteAfterCreateRemovesPair ==
  [][\A f, g \in FollowIds :
       /\ ft[g].pc = "returned" /\ ft[g].operation = "create"
       /\ ft[g].hasMonitoring /\ ~ft[g].suppressed
       /\ ft[f].operation = "delete"
       /\ ft[f].followerDID = ft[g].followerDID /\ ft[f].rkey = ft[g].rkey
       /\ ft[f].pc # "returned" /\ ft'[f].pc = "returned"
       /\ ft'[f].hasMonitoring /\ ~ft'[f].suppressed
       => ~\E r \in monitored_follows' :
             r.user_did = ft[g].followerDID /\ r.follow_did = ft[g].subject]_vars

(***************************************************************************)
(* C40: when a handle-change event of a non-ignored DID has been processed *)
(* (events handled one after the other, sequences that come back to an     *)
(* earlier handle included), getLastKnownHandle(did) returns the new       *)
(* handle of that change.                                                  *)
(***************************************************************************)
C40_LastKnownHandleIsLastChange ==
  [][\A h \in HandlerIds :
       /\ ht[h].kind = "identity"
       /\ ht[h].pc \in {"isDuplicateChange", "insertChange"} /\ ht'[h].pc = "returned"
       /\ ht[h].did \notin ignored_users
       => getLastKnownHandle(ht[h].did)' = ht[h].newHandle]_vars

====
